---------------------------- MODULE Spec2Model ----------------------------
(***************************************************************************)
(* A model of nwcsafpps_runner/utils.py: the readiness gate ready2run and  *)
(* check_uri, the scene identity SceneId, the two command builders, and    *)
(* the supervision of the external job (run_command, logreader,            *)
(* terminate_process).                                                     *)
(*                                                                         *)
(* Strings that reach shlex.split are sequences of atoms: an atom is a     *)
(* blank " ", a single quote "'", or a run of ordinary characters.         *)
(* Times are integers counting ticks, TicksPerMinute ticks to the minute.  *)
(***************************************************************************)
EXTENDS Integers, Sequences, FiniteSets, TLC

VARIABLES
    \* ---- readiness gate (ready2run) ----
    files4pps,      \* the scene index handed to ready2run: scene key -> files
    accessible,     \* the paths os.stat succeeds on, on this host
    rpc,            \* "idle" | "called" | "returned": position of the caller
    msg,            \* the event ready2run is called with
    ret,            \* how the call ended
    before,         \* the scene index as it was when the call started
    redelivered,    \* the call repeats an event whose file was unaccessible
    \* ---- scene identity (SceneId) ----
    sidA, sidB,     \* two SceneId objects
    sidC,           \* a third SceneId object
    eqChain,        \* the values of sidB == sidC and sidA == sidC
    hashes,         \* the values of hash(sidA), hash(sidB), hash(sidC)
    eqAB,           \* "unset" | "True" | "False": the value of sidA == sidB
    \* ---- command builders ----
    environ,        \* os.environ: LVL1_NPP_PATH and LVL1_EOS_PATH
    cmdIn,          \* the arguments the builders are called with
    cpc,            \* "start" | "seq_done" | "cmd_built" | "cmd_split" | "seq_again" | "cmd_again"
    cmdOut,         \* what the builder (and shlex.split) returned
    cmdFirst,       \* the first call of a builder: its result and environment
    \* ---- the external job (run_command, terminate_process) ----
    ppc,            \* position of run_command
    child,          \* "none" | "running" | "exited": the child process
    status,         \* the exit status of the child once it has exited
    returncode,     \* proc.returncode: "None" until wait() stores the status
    left,           \* the streams of the lines the child has still to write
    pipes,          \* per stream, the lines written and not yet read
    readers,        \* per stream, "unstarted" | "running" | "done"
    logged,         \* the lines handed to LOG.info, in order
    tpc,            \* position of terminate_process: "idle" | "kill" | "finished" | "done"
    termRecord,     \* what terminate_process logged
    exitedAtCheck,  \* whether the child had exited when returncode was read
    killCalled,     \* whether terminate_process called kill()
    written,        \* per stream, every line the child has written, in order
    spawnExc,       \* the exception the Popen call ended in, "None" if none
    raisedExc,      \* the exception that left run_command, "None" if none
    \* ---- statistics files (get_xml_outputfiles) ----
    disk,           \* the files of the output directory
    xmlIn,          \* the arguments of the call
    xpc,            \* "call" | "returned"
    xmlOut,         \* the file list returned
    \* ---- time statistics (create_xml_timestat_from_lvl1c / _from_ascii) ----
    timeIn,         \* the scene, pps_control_path, whether the ascii file exists
    spc,            \* position in the two functions
    infile,         \* the path of the ascii file
    failedStep,     \* the step of the conversion that failed, "None" if none
    xmlWritten,     \* whether write_xml() completed
    timeOut,        \* how the call ended: the exception or the file list
    \* ---- publication (publish_pps_files) ----
    pubIn,          \* the arguments: event data, scene, station, result files
    inputData,      \* input_msg.data, the dict of the original event
    qpc,            \* "build" | "put" | "send" | "returned" | "raised"
    fileNo,         \* the index in result_files of the file of this turn
    pubmsg,         \* the message of this turn
    emitted,        \* the messages put or sent, in order
    attempts,       \* every put and send made, in order, with its outcome
    pubExc          \* the exception that left publish_pps_files

readyVars == <<files4pps, accessible, rpc, msg, ret, before, redelivered>>
sceneVars == <<sidA, sidB, sidC, eqAB, eqChain, hashes>>
cmdVars == <<environ, cmdIn, cpc, cmdOut, cmdFirst>>
procVars == <<ppc, child, status, returncode, left, pipes, readers, logged,
              tpc, termRecord, exitedAtCheck, killCalled,
              written, spawnExc, raisedExc>>
xmlVars == <<disk, xmlIn, xpc, xmlOut>>
timeVars == <<timeIn, spc, infile, failedStep, xmlWritten, timeOut>>
pubVars == <<pubIn, inputData, qpc, fileNo, pubmsg, emitted, attempts, pubExc>>
vars == <<files4pps, accessible, rpc, msg, ret, before, redelivered,
          sidA, sidB, sidC, eqAB, eqChain, hashes, environ, cmdIn, cpc, cmdOut, cmdFirst,
          ppc, child, status, returncode, left, pipes, readers, logged,
          tpc, termRecord, exitedAtCheck, killCalled,
          written, spawnExc, raisedExc,
          disk, xmlIn, xpc, xmlOut,
          timeIn, spc, infile, failedStep, xmlWritten, timeOut,
          pubIn, inputData, qpc, fileNo, pubmsg, emitted, attempts, pubExc>>

-----------------------------------------------------------------------------
(* Module constants of utils.py                                            *)

SUPPORTED_AVHRR_SATELLITES ==
    {"NOAA-15", "NOAA-18", "NOAA-19", "Metop-B", "Metop-A", "Metop-C"}

SUPPORTED_MODIS_SATELLITES == {"EOS-Terra", "EOS-Aqua"}

SUPPORTED_VIIRS_SATELLITES ==
    {"Suomi-NPP", "NOAA-20", "NOAA-21", "NOAA-22", "NOAA-23"}

SUPPORTED_SEVIRI_SATELLITES == {"Meteosat-09", "Meteosat-10", "Meteosat-11"}

SUPPORTED_METIMAGE_SATELLITES == {"Metop-SG-A1", "Metop-SG-A2", "Metop-SG-A3"}

SUPPORTED_PPS_SATELLITES ==
    SUPPORTED_AVHRR_SATELLITES \cup SUPPORTED_MODIS_SATELLITES \cup
    SUPPORTED_SEVIRI_SATELLITES \cup SUPPORTED_METIMAGE_SATELLITES \cup
    SUPPORTED_VIIRS_SATELLITES

PPS_SENSORS ==
    {"amsu-a", "amsu-b", "mhs", "avhrr/3", "viirs", "modis", "seviri", "metimage"}

NOAA_METOP_PPS_SENSORNAMES == {"avhrr/3", "amsu-a", "amsu-b", "mhs"}

\* SATELLITE_NAME: platform name -> the processor's satellite code
SATELLITE_NAME ==
    [p \in {"NOAA-19", "NOAA-18", "NOAA-15", "Metop-A", "Metop-B", "Metop-C",
            "Metop-SG-A1", "Metop-SG-A2", "Metop-SG-A3", "Suomi-NPP",
            "NOAA-20", "NOAA-21", "NOAA-23", "EOS-Aqua", "EOS-Terra",
            "Meteosat-09", "Meteosat-10", "Meteosat-11"} |->
        CASE p = "NOAA-19" -> "noaa19"
          [] p = "NOAA-18" -> "noaa18"
          [] p = "NOAA-15" -> "noaa15"
          [] p = "Metop-A" -> "metop02"
          [] p = "Metop-B" -> "metop01"
          [] p = "Metop-C" -> "metop03"
          [] p = "Metop-SG-A1" -> "metopsga1"
          [] p = "Metop-SG-A2" -> "metopsga2"
          [] p = "Metop-SG-A3" -> "metopsga3"
          [] p = "Suomi-NPP" -> "npp"
          [] p = "NOAA-20" -> "noaa20"
          [] p = "NOAA-21" -> "noaa21"
          [] p = "NOAA-23" -> "noaa23"
          [] p = "EOS-Aqua" -> "eos2"
          [] p = "EOS-Terra" -> "eos1"
          [] p = "Meteosat-09" -> "meteosat09"
          [] p = "Meteosat-10" -> "meteosat10"
          [] p = "Meteosat-11" -> "meteosat11"]

-----------------------------------------------------------------------------
(* The host environment: name resolution and the local addresses           *)

\* socket.gethostbyname: the address of a host name, "gaierror" when the
\* name does not resolve
gethostbyname(h) ==
    CASE h = "thishost" -> "10.0.0.1"
      [] h = "otherhost" -> "10.0.0.2"
      [] OTHER -> "gaierror"

\* posttroll's get_local_ips()
get_local_ips == {"127.0.0.1", "10.0.0.1"}


-----------------------------------------------------------------------------
(* Events                                                                  *)

NoneStr == "None"

\* msg.data['orbit_number'] as it arrives: absent, an int, or a text
OrbitMissing == [tag |-> "missing", num |-> 0, text |-> <<>>]
OrbitInt(n) == [tag |-> "int", num |-> n, text |-> <<>>]
OrbitText(t) == [tag |-> "str", num |-> 0, text |-> t]

OrbitValues ==
    {OrbitMissing, OrbitInt(12345), OrbitText(<<"1", "2", "3", "4", "5">>),
     OrbitText(<<"a", "b">>)}

EventPlatforms == DOMAIN SATELLITE_NAME \cup {"NOAA-22", "GOES-16"}

EventSensors == PPS_SENSORS \cup {"hirs/4"}

\* a URI text: its network location ("" when it is a plain path) and path,
\* a path being <<directory, base name>>
UriValues ==
    [netloc : {"", "thishost", "otherhost", "unknownhost"},
     path : {<<"/data", "f1">>}]

Paths == {u.path : u \in UriValues}

Messages ==
    [type : {"file", "del"},
     host : {"absent", "thishost", "otherhost", "unknownhost"},
     destination : {NoneStr, "/dst"},
     uri : UriValues,
     uid : {"f1"},
     platform_name : EventPlatforms,
     sensor : EventSensors,
     orbit_number : OrbitValues,
     start_time : {"T0"}]

NoMsg ==
    [type |-> "none", host |-> "absent", destination |-> NoneStr,
     uri |-> [netloc |-> "", path |-> <<"", "">>], uid |-> "",
     platform_name |-> "", sensor |-> "", orbit_number |-> OrbitMissing,
     start_time |-> "T0"]

\* how a call ends: value is "True", "False", "None" (fell off the end) or
\* "raise"; at names the statement that ended it; exc the exception raised
Outcome(v, where, e) == [value |-> v, at |-> where, exc |-> e]

NoRet == Outcome("none", "none", NoneStr)

-----------------------------------------------------------------------------
(* check_uri                                                               *)

\* urlparse(uri): the host name (None when there is none) and the path
urlparse(u) ==
    [hostname |-> IF u.netloc = "" THEN NoneStr ELSE u.netloc, path |-> u.path]

\* os.path.join(destination, uid), a plain path
os_path_join(d, b) == [netloc |-> "", path |-> <<d, b>>]

\* check_uri without the os.stat: every file of another host is refused
check_uri_nostat(uri, acc) ==
    LET url == urlparse(uri)
        url_ip == gethostbyname(url.hostname)
    IN  IF url.hostname # NoneStr
           /\ url_ip # "gaierror"
           /\ url_ip \notin get_local_ips
        THEN [exc |-> "IOError", path |-> url.path]
        ELSE [exc |-> NoneStr, path |-> url.path]

\* check_uri on one uri: the path, or IOError when the file lies on another
\* host and cannot be stat-ed here; an unresolvable host is only logged
check_uri(uri, acc) ==
    LET url == urlparse(uri)
        url_ip == gethostbyname(url.hostname)
    IN  IF url.hostname # NoneStr
           /\ url_ip # "gaierror"
           /\ url_ip \notin get_local_ips
           /\ url.path \notin acc
        THEN [exc |-> "IOError", path |-> url.path]
        ELSE [exc |-> NoneStr, path |-> url.path]

-----------------------------------------------------------------------------
(* ready2run                                                               *)

RECURSIVE DigitsValue(_, _)
\* the number a text of decimal digits denotes, -1 when it has another
\* character (int() raises ValueError)
DigitsValue(t, accum) ==
    IF t = <<>> THEN accum
    ELSE LET d == CASE Head(t) = "0" -> 0 [] Head(t) = "1" -> 1
                    [] Head(t) = "2" -> 2 [] Head(t) = "3" -> 3
                    [] Head(t) = "4" -> 4 [] Head(t) = "5" -> 5
                    [] Head(t) = "6" -> 6 [] Head(t) = "7" -> 7
                    [] Head(t) = "8" -> 8 [] Head(t) = "9" -> 9
                    [] OTHER -> -1
         IN  IF d < 0 THEN -1 ELSE DigitsValue(Tail(t), 10 * accum + d)

\* an orbit number read with a default: nothing is raised
IntOfOrbitLenient(o) ==
    CASE o.tag = "int" -> [exc |-> NoneStr, num |-> o.num]
      [] OTHER ->
           IF o.text = <<>> \/ DigitsValue(o.text, 0) < 0
           THEN [exc |-> NoneStr, num |-> 0]
           ELSE [exc |-> NoneStr, num |-> DigitsValue(o.text, 0)]

\* int(msg.data['orbit_number']): KeyError when the field is absent,
\* ValueError when the text is no integer
IntOfOrbit(o) ==
    CASE o.tag = "missing" -> [exc |-> "KeyError", num |-> 0]
      [] o.tag = "int" -> [exc |-> NoneStr, num |-> o.num]
      [] OTHER ->
           IF o.text = <<>> \/ DigitsValue(o.text, 0) < 0
           THEN [exc |-> "ValueError", num |-> 0]
           ELSE [exc |-> NoneStr, num |-> DigitsValue(o.text, 0)]

\* the uris of the event: data['uri'], or destination joined with data['uid']
Uris(m) ==
    IF m.destination = NoneStr THEN <<m.uri>>
    ELSE <<os_path_join(m.destination, m.uid)>>

\* a host check that only logs
HostCheckNever(m) == FALSE

\* the host check: "False" when msg.host resolves to an address that is not
\* local; a missing host attribute or an unresolvable name is logged and the
\* call goes on
HostCheckFails(m) ==
    /\ m.host # "absent"
    /\ gethostbyname(m.host) # "gaierror"
    /\ gethostbyname(m.host) \notin get_local_ips

\* the chain without its last branch: other platforms take any sensor
SensorMatchesPlatformLax(p, s) ==
    IF p \in SUPPORTED_SEVIRI_SATELLITES THEN s \in {"seviri"}
    ELSE IF p \in SUPPORTED_MODIS_SATELLITES THEN s \in {"modis"}
    ELSE IF p \in SUPPORTED_VIIRS_SATELLITES THEN s \in {"viirs"}
    ELSE IF p \in SUPPORTED_METIMAGE_SATELLITES THEN s \in {"metimage"}
    ELSE TRUE

\* the if/elif chain on the platform lists: the sensor the platform's list
\* asks for; a platform in none of the four lists takes the last branch
SensorMatchesPlatform(p, s) ==
    IF p \in SUPPORTED_SEVIRI_SATELLITES THEN s \in {"seviri"}
    ELSE IF p \in SUPPORTED_MODIS_SATELLITES THEN s \in {"modis"}
    ELSE IF p \in SUPPORTED_VIIRS_SATELLITES THEN s \in {"viirs"}
    ELSE IF p \in SUPPORTED_METIMAGE_SATELLITES THEN s \in {"metimage"}
    ELSE s \in NOAA_METOP_PPS_SENSORNAMES

\* the names ready2run binds before the append, and the module's globals
Ready2RunLocals ==
    {"msg", "files4pps", "kwargs", "destination", "uris", "level1_files",
     "url_ip", "err", "orbit_number", "platform_name", "starttime", "item"}

ModuleGlobals ==
    {"threading", "parse", "globify", "Message", "Popen", "PIPE", "os", "stat",
     "shlex", "glob", "socket", "datetime", "timedelta", "urlparse",
     "get_local_ips", "logging", "LOG", "NwpPrepareError",
     "FindTimeControlFileError", "PPS_OUT_PATTERN", "PPS_OUT_PATTERN_MULTIPLE",
     "PPS_STAT_PATTERN", "SUPPORTED_AVHRR_SATELLITES",
     "SUPPORTED_EARS_AVHRR_SATELLITES", "SUPPORTED_MODIS_SATELLITES",
     "SUPPORTED_VIIRS_SATELLITES", "SUPPORTED_SEVIRI_SATELLITES",
     "SUPPORTED_METIMAGE_SATELLITES", "SUPPORTED_PPS_SATELLITES",
     "GEOLOC_PREFIX", "DATA1KM_PREFIX", "PPS_SENSORS", "REQUIRED_MW_SENSORS",
     "NOAA_METOP_PPS_SENSORNAMES", "METOP_NAME_LETTER", "METOP_NAME",
     "METOP_NAME_INV", "SATELLITE_NAME", "SENSOR_LIST", "sat", "METOP_SENSOR",
     "run_command", "check_uri", "PpsRunError", "SceneId", "message_uid",
     "get_sceneid", "ready2run", "terminate_process",
     "create_pps_call_command_sequence", "create_pps_call_command",
     "get_pps_inputfile", "get_xml_outputfiles",
     "create_xml_timestat_from_lvl1c", "find_product_statistics_from_lvl1c",
     "create_pps_file_from_lvl1c", "create_xml_timestat_from_ascii",
     "publish_pps_files", "logreader"}

\* whether evaluating the name n inside ready2run finds a binding
NameIsBound(n) == n \in Ready2RunLocals \cup ModuleGlobals

\* files4pps[key].append(item) for each item of level1_files
AppendFiles(idx, key, items) ==
    IF key \in DOMAIN idx
    THEN [idx EXCEPT ![key] = idx[key] \o items]
    ELSE [k \in DOMAIN idx \cup {key} |-> IF k = key THEN items ELSE idx[k]]

\* the statements after the append: the length test and the supported test
AfterAppend(m, idx, key) ==
    IF Len(idx[key]) < 1 THEN Outcome("False", "nofiles", NoneStr)
    ELSE IF m.platform_name \in SUPPORTED_PPS_SATELLITES
         THEN Outcome("True", "supported", NoneStr)
         ELSE Outcome("None", "end", NoneStr)

ready2run_orbit_first(m, idx, acc) ==
    LET level1 == check_uri(Uris(m)[1], acc)
        orbit == IntOfOrbit(m.orbit_number)
        stop(o) == [out |-> o, index |-> idx]
    IN  IF orbit.exc # NoneStr
        THEN stop(Outcome("raise", "orbit_number", orbit.exc))
        ELSE IF m.type # "file" THEN stop(Outcome("False", "type", NoneStr))
        ELSE IF level1.exc = "IOError"
             THEN stop(Outcome("False", "check_uri", NoneStr))
        ELSE IF HostCheckFails(m) THEN stop(Outcome("False", "host", NoneStr))
        ELSE IF m.sensor \notin PPS_SENSORS
             THEN stop(Outcome("False", "sensor", NoneStr))
        ELSE IF ~SensorMatchesPlatform(m.platform_name, m.sensor)
             THEN stop(Outcome("False", "platform_sensor", NoneStr))
        ELSE IF m.platform_name \notin DOMAIN SATELLITE_NAME
             THEN stop(Outcome("False", "satellite_name", NoneStr))
        ELSE IF ~NameIsBound("sceneid")
             THEN stop(Outcome("raise", "append", "NameError"))
        ELSE LET key == <<"sceneid">>
                 idx2 == AppendFiles(idx, key, <<level1.path>>)
             IN  [out |-> AfterAppend(m, idx2, key), index |-> idx2]

ready2run_append_then_raise(m, idx, acc) ==
    LET level1 == check_uri(Uris(m)[1], acc)
        orbit == IntOfOrbit(m.orbit_number)
        stop(o) == [out |-> o, index |-> idx]
    IN  IF m.type # "file" THEN stop(Outcome("False", "type", NoneStr))
        ELSE IF level1.exc = "IOError"
             THEN stop(Outcome("False", "check_uri", NoneStr))
        ELSE IF HostCheckFails(m) THEN stop(Outcome("False", "host", NoneStr))
        ELSE IF m.sensor \notin PPS_SENSORS
             THEN stop(Outcome("False", "sensor", NoneStr))
        ELSE IF ~SensorMatchesPlatform(m.platform_name, m.sensor)
             THEN stop(Outcome("False", "platform_sensor", NoneStr))
        ELSE IF orbit.exc # NoneStr
             THEN stop(Outcome("raise", "orbit_number", orbit.exc))
        ELSE IF m.platform_name \notin DOMAIN SATELLITE_NAME
             THEN stop(Outcome("False", "satellite_name", NoneStr))
        ELSE IF ~NameIsBound("sceneid")
             THEN [out |-> Outcome("raise", "append", "NameError"),
                   index |-> AppendFiles(idx, <<"sceneid">>, <<level1.path>>)]
        ELSE LET key == <<"sceneid">>
                 idx2 == AppendFiles(idx, key, <<level1.path>>)
             IN  [out |-> AfterAppend(m, idx2, key), index |-> idx2]


\* ready2run(msg, files4pps): how the call ends and the index it leaves
ready2run(m, idx, acc) ==
    LET level1 == check_uri(Uris(m)[1], acc)
        orbit == IntOfOrbit(m.orbit_number)
        stop(o) == [out |-> o, index |-> idx]
    IN  IF m.type # "file" THEN stop(Outcome("False", "type", NoneStr))
        ELSE IF level1.exc = "IOError"
             THEN stop(Outcome("False", "check_uri", NoneStr))
        ELSE IF HostCheckFails(m) THEN stop(Outcome("False", "host", NoneStr))
        ELSE IF m.sensor \notin PPS_SENSORS
             THEN stop(Outcome("False", "sensor", NoneStr))
        ELSE IF ~SensorMatchesPlatform(m.platform_name, m.sensor)
             THEN stop(Outcome("False", "platform_sensor", NoneStr))
        ELSE IF orbit.exc # NoneStr
             THEN stop(Outcome("raise", "orbit_number", orbit.exc))
        ELSE IF m.platform_name \notin DOMAIN SATELLITE_NAME
             THEN stop(Outcome("False", "satellite_name", NoneStr))
        ELSE IF ~NameIsBound("sceneid")
             THEN stop(Outcome("raise", "append", "NameError"))
        ELSE LET key == <<"sceneid">>
                 idx2 == AppendFiles(idx, key, <<level1.path>>)
             IN  [out |-> AfterAppend(m, idx2, key), index |-> idx2]

-----------------------------------------------------------------------------
(* The caller of ready2run: one event at a time                            *)

\* the key a scene is stored under by whoever filled the index
SceneKey(platform, orbit, start) == <<platform, orbit, start>>

EmptyIndex == [k \in {} |-> <<>>]

\* the indexes a call can find: empty, or holding one earlier file of a scene
InitialIndexes ==
    {EmptyIndex,
     [k \in {SceneKey("EOS-Aqua", 12345, "T0")} |-> <<<<"/data", "f0">>>>]}

ReadyInit ==
    /\ files4pps \in InitialIndexes
    /\ accessible \in SUBSET Paths
    /\ rpc = "idle"
    /\ msg = NoMsg
    /\ ret = NoRet
    /\ before = files4pps
    /\ redelivered = FALSE

\* a file appears on, or vanishes from, the local file system
FsChange ==
    /\ rpc = "idle"
    /\ \E a \in SUBSET Paths : a # accessible /\ accessible' = a
    /\ UNCHANGED <<files4pps, rpc, msg, ret, before, redelivered>>

\* the dispatcher takes an event off the bus and calls ready2run with it
Receive ==
    /\ rpc = "idle"
    /\ \E m \in Messages : msg' = m
    /\ rpc' = "called"
    /\ before' = files4pps
    /\ redelivered' = FALSE
    /\ UNCHANGED <<files4pps, accessible, ret>>

\* the call runs to its end
Evaluate ==
    /\ rpc = "called"
    /\ LET r == ready2run(msg, files4pps, accessible)
       IN  /\ ret' = r.out
           /\ files4pps' = r.index
    /\ rpc' = "returned"
    /\ UNCHANGED <<accessible, msg, before, redelivered>>

\* the caller goes back to waiting for events
Return ==
    /\ rpc = "returned"
    /\ rpc' = "idle"
    /\ msg' = NoMsg
    /\ ret' = NoRet
    /\ redelivered' = FALSE
    /\ UNCHANGED <<files4pps, accessible, before>>

\* the bus delivers again an event that ended at the file check; the file
\* system may have changed in between
Redeliver ==
    /\ rpc = "returned"
    /\ ret.at = "check_uri"
    /\ rpc' = "called"
    /\ ret' = NoRet
    /\ before' = files4pps
    /\ redelivered' = TRUE
    /\ \E a \in SUBSET Paths : accessible' = a
    /\ UNCHANGED <<files4pps, msg>>

-----------------------------------------------------------------------------
(* SceneId                                                                 *)

TicksPerMinute == 2

MaxTick == 16

\* the default of SceneId.__init__'s threshold argument, in minutes
DefaultThreshold == 5

\* timedelta(minutes=n), in ticks
timedelta_minutes(n) == n * TicksPerMinute

\* abs() of a difference of two datetimes
AbsDelta(d) == IF d < 0 THEN 0 - d ELSE d

\* SceneId(platform_name, orbit_number, starttime, threshold)
SceneId(p, o, st, th) ==
    [platform_name |-> p, orbit_number |-> o, starttime |-> st, threshold |-> th]

\* the time test with the boundary let in
LessThanTolerance(d, tol) == d <= tol

\* the time test of __eq__: the two start times are closer than the tolerance
WithinTolerance(d, tol) == d < tol

\* SceneId.__eq__(self, other)
SceneIdEq(self, other) ==
    /\ self.platform_name = other.platform_name
    /\ self.orbit_number = other.orbit_number
    /\ WithinTolerance(AbsDelta(self.starttime - other.starttime),
                       timedelta_minutes(self.threshold))

SceneIds ==
    {SceneId(p, o, st, th) :
        p \in {"NOAA-19", "NOAA-20"}, o \in {12345, 12346},
        st \in 0..MaxTick, th \in {1, DefaultThreshold}}

DigitAtoms == <<"0", "1", "2", "3", "4", "5", "6", "7", "8", "9">>

RECURSIVE IntStr(_)
\* str(n) for an int n >= 0: its decimal digits
IntStr(n) ==
    IF n < 10 THEN <<DigitAtoms[n + 1]>>
    ELSE IntStr(n \div 10) \o <<DigitAtoms[(n % 10) + 1]>>

\* the third object of a chain of comparisons
ThirdSceneIds ==
    {SceneId("NOAA-19", 12345, st, DefaultThreshold) : st \in 0..MaxTick}

strftime_ten_minutes(t) == IntStr(t \div (10 * TicksPerMinute))

\* starttime.strftime('%Y%m%d%H%M'): the digits of the whole minute, the
\* seconds dropped
strftime_minutes(t) == IntStr(t \div TicksPerMinute)

\* SceneId.__str__(self)
SceneIdStr(self) ==
    <<self.platform_name, "_">> \o IntStr(self.orbit_number) \o <<"_">>
        \o strftime_minutes(self.starttime)

\* SceneId.__hash__(self): hash(str(self)); the hash of a text is taken to
\* be the text, equal texts and only they having equal hashes
SceneIdHash(self) == SceneIdStr(self)

NoChain == [bc |-> "unset", ac |-> "unset"]

NoHashes == <<>>

SceneInit ==
    /\ sidA \in SceneIds
    /\ sidB \in SceneIds
    /\ sidC \in ThirdSceneIds
    /\ eqAB = "unset"
    /\ eqChain = NoChain
    /\ hashes = NoHashes

\* the program evaluates sidA == sidB
CompareScenes ==
    /\ eqAB = "unset"
    /\ eqAB' = IF SceneIdEq(sidA, sidB) THEN "True" ELSE "False"
    /\ UNCHANGED <<sidA, sidB, sidC, eqChain, hashes>>

\* the program evaluates sidB == sidC and sidA == sidC
CompareChain ==
    /\ eqAB # "unset"
    /\ eqChain = NoChain
    /\ eqChain' = [bc |-> IF SceneIdEq(sidB, sidC) THEN "True" ELSE "False",
                   ac |-> IF SceneIdEq(sidA, sidC) THEN "True" ELSE "False"]
    /\ UNCHANGED <<sidA, sidB, sidC, eqAB, hashes>>

\* the program evaluates hash(sidA), hash(sidB) and hash(sidC)
HashScenes ==
    /\ eqChain # NoChain
    /\ hashes = NoHashes
    /\ hashes' = <<SceneIdHash(sidA), SceneIdHash(sidB), SceneIdHash(sidC)>>
    /\ UNCHANGED <<sidA, sidB, sidC, eqAB, eqChain>>

-----------------------------------------------------------------------------
(* Command builders.  A text is a sequence of atoms: the blank " ", the    *)
(* single quote "'", or a run of other characters.                         *)

Blank == " "

Quote == "'"

\* an optional text: a dict entry or environment variable that may be absent
Absent == [set |-> FALSE, val |-> <<>>]
Present(t) == [set |-> TRUE, val |-> t]

\* d.get(key, default) for an optional entry
DictGet(entry, default) == IF entry.set THEN entry ELSE default

\* the truth value of an optional text: None and '' are false
Truthy(x) == x.set /\ x.val # <<>>

RECURSIVE ShlexScan(_, _, _, _, _)
\* shlex's scan of the rest s of the text: tok is the token being read,
\* intok whether one is being read, inq whether a quote is open, acc the
\* tokens read so far
ShlexScan(s, tok, intok, inq, acc) ==
    IF s = <<>>
    THEN IF inq THEN [exc |-> "ValueError", argv |-> <<>>]
         ELSE [exc |-> NoneStr, argv |-> IF intok THEN Append(acc, tok) ELSE acc]
    ELSE LET c == Head(s)
             r == Tail(s)
         IN  IF inq
             THEN IF c = Quote THEN ShlexScan(r, tok, TRUE, FALSE, acc)
                  ELSE ShlexScan(r, Append(tok, c), TRUE, TRUE, acc)
             ELSE IF c = Blank
                  THEN ShlexScan(r, <<>>, FALSE, FALSE,
                                 IF intok THEN Append(acc, tok) ELSE acc)
             ELSE IF c = Quote THEN ShlexScan(r, tok, TRUE, TRUE, acc)
             ELSE ShlexScan(r, Append(tok, c), TRUE, FALSE, acc)

\* shlex.split(text): the tokens, or ValueError on an unclosed quote
shlex_split(text) == ShlexScan(text, <<>>, FALSE, FALSE, <<>>)

\* a + ' ' + b
Spaced(a, b) == a \o <<Blank>> \o b

create_pps_call_command_sequence_any_family(pps_script_name, scene, options, env) ==
    LET LVL1_NPP_PATH == DictGet(env.LVL1_NPP_PATH, options.LVL1_NPP_PATH)
        LVL1_EOS_PATH == DictGet(env.LVL1_EOS_PATH, options.LVL1_EOS_PATH)
        p == scene.platform_name
        code == <<SATELLITE_NAME[p]>>
        cmdstr1 ==
            IF p \in SUPPORTED_MODIS_SATELLITES
            THEN Spaced(Spaced(Spaced(Spaced(pps_script_name, code),
                                      IntStr(scene.orbit_number)),
                               scene.satday), scene.sathour)
            ELSE Spaced(Spaced(Spaced(Spaced(pps_script_name, code),
                                      IntStr(scene.orbit_number)),
                               <<"0">>), <<"0">>)
        cmdstr2 == Spaced(cmdstr1, IntStr(options.aapp_level1files_max_minutes_old))
        cmdstr3 ==
            IF Truthy(LVL1_NPP_PATH)
            THEN Spaced(cmdstr2, LVL1_NPP_PATH.val)
            ELSE IF p \in SUPPORTED_MODIS_SATELLITES /\ Truthy(LVL1_EOS_PATH)
            THEN Spaced(cmdstr2, LVL1_EOS_PATH.val)
            ELSE cmdstr2
    IN  IF p \notin DOMAIN SATELLITE_NAME
        THEN [exc |-> "KeyError", argv |-> <<>>, text |-> <<>>]
        ELSE [exc |-> shlex_split(cmdstr3).exc,
              argv |-> shlex_split(cmdstr3).argv, text |-> <<>>]

\* create_pps_call_command_sequence(pps_script_name, scene, options)
create_pps_call_command_sequence(pps_script_name, scene, options, env) ==
    LET LVL1_NPP_PATH == DictGet(env.LVL1_NPP_PATH, options.LVL1_NPP_PATH)
        LVL1_EOS_PATH == DictGet(env.LVL1_EOS_PATH, options.LVL1_EOS_PATH)
        p == scene.platform_name
        code == <<SATELLITE_NAME[p]>>
        cmdstr1 ==
            IF p \in SUPPORTED_MODIS_SATELLITES
            THEN Spaced(Spaced(Spaced(Spaced(pps_script_name, code),
                                      IntStr(scene.orbit_number)),
                               scene.satday), scene.sathour)
            ELSE Spaced(Spaced(Spaced(Spaced(pps_script_name, code),
                                      IntStr(scene.orbit_number)),
                               <<"0">>), <<"0">>)
        cmdstr2 == Spaced(cmdstr1, IntStr(options.aapp_level1files_max_minutes_old))
        cmdstr3 ==
            IF p \in SUPPORTED_VIIRS_SATELLITES /\ Truthy(LVL1_NPP_PATH)
            THEN Spaced(cmdstr2, LVL1_NPP_PATH.val)
            ELSE IF p \in SUPPORTED_MODIS_SATELLITES /\ Truthy(LVL1_EOS_PATH)
            THEN Spaced(cmdstr2, LVL1_EOS_PATH.val)
            ELSE cmdstr2
    IN  IF p \notin DOMAIN SATELLITE_NAME
        THEN [exc |-> "KeyError", argv |-> <<>>, text |-> <<>>]
        ELSE [exc |-> shlex_split(cmdstr3).exc,
              argv |-> shlex_split(cmdstr3).argv, text |-> <<>>]

\* create_pps_call_command(python_exec, pps_script_name, scene): one text
create_pps_call_command(python_exec, pps_script_name, scene) ==
    python_exec \o (<<Blank>> \o pps_script_name \o <<Blank>>)
        \o (<<"-af", Blank>> \o scene.file4pps)

ScriptNames ==
    {<<"/opt/pps/run.py">>, <<"/opt/my", Blank, "pps/run.py">>,
     <<"/opt/it", Quote, "s/run.py">>}

PythonExecs == {<<"/usr/bin/python3">>, <<"/usr/my", Blank, "bin/python3">>}

InputFiles == {<<"/data/f.nc">>, <<"/data/my", Blank, "f.nc">>}

Scenes ==
    [platform_name : {"EOS-Aqua", "Suomi-NPP", "NOAA-19", "NOAA-22"},
     orbit_number : {7, 12345},
     satday : {<<"20123">>},
     sathour : {<<"11">>},
     file4pps : InputFiles]

Options ==
    [aapp_level1files_max_minutes_old : {90},
     LVL1_NPP_PATH : {Absent, Present(<<"/cfg/npp">>)},
     LVL1_EOS_PATH : {Absent, Present(<<"/cfg/eos">>)}]

Environs ==
    [LVL1_NPP_PATH : {Absent, Present(<<"/env/npp">>), Present(<<>>)},
     LVL1_EOS_PATH : {Absent, Present(<<"/env/eos">>)}]

CmdInputs ==
    [python_exec : PythonExecs, pps_script_name : ScriptNames,
     scene : Scenes, options : Options]

NoCmdOut == [exc |-> NoneStr, argv |-> <<>>, text |-> <<>>]

NoFirst == [out |-> NoCmdOut,
            environ |-> [LVL1_NPP_PATH |-> Absent, LVL1_EOS_PATH |-> Absent]]

CmdInit ==
    /\ environ \in Environs
    /\ cmdIn \in CmdInputs
    /\ cpc = "start"
    /\ cmdOut = NoCmdOut
    /\ cmdFirst = NoFirst

\* the caller builds the PPS v2014 argument sequence
BuildSequence ==
    /\ cpc = "start"
    /\ cmdOut' = create_pps_call_command_sequence(
                     cmdIn.pps_script_name, cmdIn.scene, cmdIn.options, environ)
    /\ cmdFirst' = [out |-> cmdOut', environ |-> environ]
    /\ cpc' = "seq_done"
    /\ UNCHANGED <<environ, cmdIn>>

\* the caller builds the PPS v2021 command text
BuildCommand ==
    /\ cpc = "start"
    /\ cmdOut' = [exc |-> NoneStr, argv |-> <<>>,
                  text |-> create_pps_call_command(
                               cmdIn.python_exec, cmdIn.pps_script_name,
                               cmdIn.scene)]
    /\ cmdFirst' = [out |-> cmdOut', environ |-> environ]
    /\ cpc' = "cmd_built"
    /\ UNCHANGED <<environ, cmdIn>>

\* run_command turns the command text into the argument sequence of Popen
RunCommandSplit ==
    /\ cpc = "cmd_built"
    /\ cmdOut' = [exc |-> shlex_split(cmdOut.text).exc,
                  argv |-> shlex_split(cmdOut.text).argv,
                  text |-> cmdOut.text]
    /\ cpc' = "cmd_split"
    /\ UNCHANGED <<environ, cmdIn, cmdFirst>>

\* between two calls of a builder the process environment is given other
\* values of LVL1_NPP_PATH and LVL1_EOS_PATH
EnvironChange ==
    /\ cpc \in {"seq_done", "cmd_built"}
    /\ \E env \in Environs : env # environ /\ environ' = env
    /\ UNCHANGED <<cmdIn, cpc, cmdOut, cmdFirst>>

\* the caller builds the argument sequence again, from the same arguments
BuildSequenceAgain ==
    /\ cpc = "seq_done"
    /\ cmdOut' = create_pps_call_command_sequence(
                     cmdIn.pps_script_name, cmdIn.scene, cmdIn.options, environ)
    /\ cpc' = "seq_again"
    /\ UNCHANGED <<environ, cmdIn, cmdFirst>>

\* the caller builds the command text again, from the same arguments
BuildCommandAgain ==
    /\ cpc = "cmd_built"
    /\ cmdOut' = [exc |-> NoneStr, argv |-> <<>>,
                  text |-> create_pps_call_command(
                               cmdIn.python_exec, cmdIn.pps_script_name,
                               cmdIn.scene)]
    /\ cpc' = "cmd_again"
    /\ UNCHANGED <<environ, cmdIn, cmdFirst>>

-----------------------------------------------------------------------------
(* The external job: run_command, logreader and terminate_process.  The    *)
(* child writes at most MaxLines lines, each to its standard output or its *)
(* standard error, through pipes that hold PipeCap lines, and exits.  The  *)
(* child's program fixes the stream of each line: a write to a full pipe   *)
(* blocks until the reader of that pipe has taken a line.                  *)

MaxLines == 2

PipeCap == 1

Streams == {"stdout", "stderr"}

\* the child's programs: the streams it writes to, line by line
ChildPrograms == UNION {[1..n -> Streams] : n \in 0..MaxLines}

Newline == "\n"

\* the lines a child can write: text, padded text, an empty line
LineTexts == {<<"w", Newline>>, <<Blank, "w", Blank, Newline>>, <<Newline>>}

Whitespace == {Blank, Newline}

RECURSIVE lstrip(_)
lstrip(str) ==
    IF str # <<>> /\ Head(str) \in Whitespace THEN lstrip(Tail(str)) ELSE str

RECURSIVE rstrip(_)
rstrip(str) ==
    IF str # <<>> /\ str[Len(str)] \in Whitespace
    THEN rstrip(SubSeq(str, 1, Len(str) - 1))
    ELSE str

\* mystring.strip()
strip(str) == rstrip(lstrip(str))

\* what the Popen constructor can end in besides a child: the program
\* cannot be executed (OSError), the arguments are invalid (ValueError)
SpawnErrors == {"OSError", "ValueError"}

ExceptClauseCatchesAll(exc) == TRUE

\* "except NwpPrepareError:" around the Popen call
ExceptClauseCatches(exc) == exc = "NwpPrepareError"

\* the local name proc is bound once Popen has returned a child
ProcBound == child # "none"

ProcInit ==
    /\ ppc = "popen"
    /\ child = "none"
    /\ status = NoneStr
    /\ returncode = NoneStr
    /\ left \in ChildPrograms
    /\ pipes = [s \in Streams |-> <<>>]
    /\ readers = [s \in Streams |-> "unstarted"]
    /\ logged = <<>>
    /\ tpc = "idle"
    /\ termRecord = NoneStr
    /\ exitedAtCheck = FALSE
    /\ killCalled = FALSE
    /\ written = [s \in Streams |-> <<>>]
    /\ spawnExc = NoneStr
    /\ raisedExc = NoneStr

\* Popen(myargs, ...) starts the child
PopenStarts ==
    /\ ppc = "popen"
    /\ child' = "running"
    /\ ppc' = "start_out"
    /\ UNCHANGED <<status, returncode, left, pipes, readers, logged,
                   tpc, termRecord, exitedAtCheck, killCalled,
                   written, spawnExc, raisedExc>>

\* Popen raises: a caught exception is logged and run_command goes on to
\* the next statement, any other exception leaves run_command
PopenFails ==
    /\ ppc = "popen"
    /\ \E exc \in SpawnErrors :
          /\ spawnExc' = exc
          /\ IF ExceptClauseCatches(exc)
             THEN /\ ppc' = "start_out"
                  /\ logged' = Append(logged, <<"exception", <<exc>>>>)
                  /\ UNCHANGED raisedExc
             ELSE /\ ppc' = "raised"
                  /\ raisedExc' = exc
                  /\ UNCHANGED logged
    /\ UNCHANGED <<child, status, returncode, left, pipes, readers,
                   tpc, termRecord, exitedAtCheck, killCalled, written>>

StartReaderSequential ==
    \/ /\ ppc = "start_out"
       /\ IF ProcBound
          THEN /\ readers' = [readers EXCEPT !["stdout"] = "running"]
               /\ ppc' = "start_err"
               /\ UNCHANGED raisedExc
          ELSE /\ ppc' = "raised"
               /\ raisedExc' = "UnboundLocalError"
               /\ UNCHANGED readers
       /\ UNCHANGED <<child, status, returncode, left, pipes, logged,
                      tpc, termRecord, exitedAtCheck, killCalled,
                      written, spawnExc>>
    \/ /\ ppc = "start_err"
       /\ readers["stdout"] = "done"
       /\ readers' = [readers EXCEPT !["stderr"] = "running"]
       /\ ppc' = "join_out"
       /\ UNCHANGED <<child, status, returncode, left, pipes, logged,
                      tpc, termRecord, exitedAtCheck, killCalled,
                      written, spawnExc, raisedExc>>

\* the two threading.Thread(target=logreader, args=(proc.stdout, ...)) and
\* (proc.stderr, ...), out_reader.start() and err_reader.start(); reading
\* proc while it is unbound raises UnboundLocalError
StartReader ==
    \/ /\ ppc = "start_out"
       /\ IF ProcBound
          THEN /\ readers' = [readers EXCEPT !["stdout"] = "running"]
               /\ ppc' = "start_err"
               /\ UNCHANGED raisedExc
          ELSE /\ ppc' = "raised"
               /\ raisedExc' = "UnboundLocalError"
               /\ UNCHANGED readers
       /\ UNCHANGED <<child, status, returncode, left, pipes, logged,
                      tpc, termRecord, exitedAtCheck, killCalled,
                      written, spawnExc>>
    \/ /\ ppc = "start_err"
       /\ readers' = [readers EXCEPT !["stderr"] = "running"]
       /\ ppc' = "join_out"
       /\ UNCHANGED <<child, status, returncode, left, pipes, logged,
                      tpc, termRecord, exitedAtCheck, killCalled,
                      written, spawnExc, raisedExc>>

JoinReaderNoWait ==
    \/ /\ ppc = "join_out"
       /\ readers["stdout"] = "done"
       /\ ppc' = "join_err"
       /\ UNCHANGED <<child, status, returncode, left, pipes, readers, logged,
                      tpc, termRecord, exitedAtCheck, killCalled,
                      written, spawnExc, raisedExc>>
    \/ /\ ppc = "join_err"
       /\ ppc' = "wait"
       /\ UNCHANGED <<child, status, returncode, left, pipes, readers, logged,
                      tpc, termRecord, exitedAtCheck, killCalled,
                      written, spawnExc, raisedExc>>

\* out_reader.join() and err_reader.join()
JoinReader ==
    \/ /\ ppc = "join_out"
       /\ readers["stdout"] = "done"
       /\ ppc' = "join_err"
       /\ UNCHANGED <<child, status, returncode, left, pipes, readers, logged,
                      tpc, termRecord, exitedAtCheck, killCalled,
                      written, spawnExc, raisedExc>>
    \/ /\ ppc = "join_err"
       /\ readers["stderr"] = "done"
       /\ ppc' = "wait"
       /\ UNCHANGED <<child, status, returncode, left, pipes, readers, logged,
                      tpc, termRecord, exitedAtCheck, killCalled,
                      written, spawnExc, raisedExc>>

\* proc.wait(): blocks until the child has exited, stores its status in
\* proc.returncode and returns it
ProcWait ==
    /\ ppc = "wait"
    /\ child = "exited"
    /\ returncode' = status
    /\ ppc' = "returned"
    /\ UNCHANGED <<child, status, left, pipes, readers, logged,
                   tpc, termRecord, exitedAtCheck, killCalled,
                   written, spawnExc, raisedExc>>

\* logreader: one readline; a line is stripped and logged, end of file (the
\* child has exited and the pipe is empty) closes the stream and ends the
\* thread
LogReaderStep(s) ==
    /\ readers[s] = "running"
    /\ \/ /\ pipes[s] # <<>>
          /\ logged' = Append(logged, <<s, strip(Head(pipes[s]))>>)
          /\ pipes' = [pipes EXCEPT ![s] = Tail(pipes[s])]
          /\ UNCHANGED readers
       \/ /\ pipes[s] = <<>>
          /\ child = "exited"
          /\ readers' = [readers EXCEPT ![s] = "done"]
          /\ UNCHANGED <<logged, pipes>>
    /\ UNCHANGED <<ppc, child, status, returncode, left,
                   tpc, termRecord, exitedAtCheck, killCalled,
                   written, spawnExc, raisedExc>>

LogReader == \E s \in Streams : LogReaderStep(s)

\* the child writes its next line to the stream its program names; it
\* blocks while that pipe is full
ChildWrite ==
    /\ child = "running"
    /\ left # <<>>
    /\ LET s == Head(left)
       IN /\ Len(pipes[s]) < PipeCap
          /\ \E text \in LineTexts :
                /\ pipes' = [pipes EXCEPT ![s] = Append(pipes[s], text)]
                /\ written' = [written EXCEPT ![s] = Append(written[s], text)]
    /\ left' = Tail(left)
    /\ UNCHANGED <<ppc, child, status, returncode, readers, logged,
                   tpc, termRecord, exitedAtCheck, killCalled,
                   spawnExc, raisedExc>>

\* the child exits by itself
ChildExit ==
    /\ child = "running"
    /\ left = <<>>
    /\ child' = "exited"
    /\ \E st \in {"0", "1"} : status' = st
    /\ UNCHANGED <<ppc, returncode, left, pipes, readers, logged,
                   tpc, termRecord, exitedAtCheck, killCalled,
                   written, spawnExc, raisedExc>>

\* terminate_process: the test "popen_obj.returncode is None"
TerminateCheck ==
    /\ tpc = "idle"
    /\ child # "none"
    /\ tpc' = IF returncode = NoneStr THEN "kill" ELSE "finished"
    /\ exitedAtCheck' = (child = "exited")
    /\ UNCHANGED <<ppc, child, status, returncode, left, pipes, readers,
                   logged, termRecord, killCalled,
                   written, spawnExc, raisedExc>>

\* terminate_process: popen_obj.kill() and the "timed out" log line
TerminateKill ==
    /\ tpc = "kill"
    /\ killCalled' = TRUE
    /\ IF child = "running"
       THEN child' = "exited" /\ status' = "-9" /\ left' = <<>>
       ELSE UNCHANGED <<child, status, left>>
    /\ termRecord' = "timed out"
    /\ tpc' = "done"
    /\ UNCHANGED <<ppc, returncode, pipes, readers, logged, exitedAtCheck,
                   written, spawnExc, raisedExc>>

\* terminate_process: the "finished before time out" log line
TerminateFinished ==
    /\ tpc = "finished"
    /\ termRecord' = "finished before time out"
    /\ tpc' = "done"
    /\ UNCHANGED <<ppc, child, status, returncode, left, pipes, readers,
                   logged, exitedAtCheck, killCalled,
                   written, spawnExc, raisedExc>>

-----------------------------------------------------------------------------
(* get_xml_outputfiles: the statistics files of a scene, found by glob.    *)
(* A file on disk is the record of the fields of its name                  *)
(* S_NWC_<tag>_<platform>_<orbit>_<start>Z_<end>Z.<ext>; the disk holds    *)
(* files of orbits at most OrbitSpan away from the orbit asked for.        *)

OrbitSpan == 6

METOP_NAME_LETTER ==
    [metop01 |-> "metopb", metop02 |-> "metopa", metop03 |-> "metopc"]

\* METOP_NAME_LETTER.get(platform_name, platform_name)
MetopLetterGet(platform_name) ==
    IF platform_name \in DOMAIN METOP_NAME_LETTER
    THEN METOP_NAME_LETTER[platform_name]
    ELSE platform_name

RECURSIVE ZeroFill(_, _)
ZeroFill(digits, width) ==
    IF Len(digits) >= width THEN digits
    ELSE ZeroFill(<<"0">> \o digits, width)

\* '%.5d' % n: at least five digits, a minus sign before them when n < 0
FormatOrbit(n) ==
    IF n < 0 THEN <<"-">> \o ZeroFill(IntStr(-n), 5)
    ELSE ZeroFill(IntStr(n), 5)

\* os.path.join(path, 'S_NWC') + '*' + platform + '_' + orbit + '_' +
\* st_time + '*.xml'
XmlPattern(path, platform_name, orbit, st_time) ==
    [dir |-> path, platform |-> MetopLetterGet(platform_name),
     orbit |-> FormatOrbit(orbit), start |-> st_time]

IsPrefix(p, t) == Len(p) <= Len(t) /\ SubSeq(t, 1, Len(p)) = p

\* glob(pattern): the files of the disk whose name the pattern matches
glob(pattern, dsk) ==
    {f \in dsk : /\ f.dir = pattern.dir
                 /\ f.platform = pattern.platform
                 /\ f.orbit = pattern.orbit
                 /\ IsPrefix(pattern.start, f.start)
                 /\ f.ext = "xml"}

SearchOffsetsWide == <<1, -1, 2, -2, 3, -3, 4, -4, 5, -5, 6, -6>>

\* for idx in [1, -1, 2, -2, 3, -3, 4, -4, 5, -5]
SearchOffsets == <<1, -1, 2, -2, 3, -3, 4, -4, 5, -5>>

RECURSIVE TryOffsetsNoBreak(_, _, _, _)
TryOffsetsNoBreak(offs, filelist, in, dsk) ==
    IF offs = <<>> THEN filelist
    ELSE LET found == glob(XmlPattern(in.path, in.platform_name,
                                      in.orb + Head(offs), in.st_time), dsk)
         IN  TryOffsetsNoBreak(Tail(offs), found, in, dsk)

RECURSIVE TryOffsets(_, _, _, _)
\* the loop over the offsets: filelist is rebound at each turn, the loop
\* breaks at the first turn that finds a file
TryOffsets(offs, filelist, in, dsk) ==
    IF offs = <<>> THEN filelist
    ELSE LET found == glob(XmlPattern(in.path, in.platform_name,
                                      in.orb + Head(offs), in.st_time), dsk)
         IN  IF Cardinality(found) > 0 THEN found
             ELSE TryOffsets(Tail(offs), found, in, dsk)

get_xml_outputfiles(in, dsk) ==
    LET filelist == glob(XmlPattern(in.path, in.platform_name, in.orb,
                                    in.st_time), dsk)
    IN  IF Cardinality(filelist) = 0
        THEN TryOffsets(SearchOffsets, filelist, in, dsk)
        ELSE filelist

\* the orbits get_xml_outputfiles is asked for: one near zero, one usual
XmlOrbits == {2, 12345}

\* the names PPS can have given to files of one orbit: the statistics of
\* two products, a later start time, a product file, another platform name
FileKinds ==
    <<[tag |-> "CMA", platform |-> "metopb", start |-> <<"T1", "s">>, ext |-> "xml"],
      [tag |-> "CTTH", platform |-> "metopb", start |-> <<"T1", "s">>, ext |-> "xml"],
      [tag |-> "CMA", platform |-> "metopb", start |-> <<"T2", "s">>, ext |-> "xml"],
      [tag |-> "CMA", platform |-> "metopb", start |-> <<"T1", "s">>, ext |-> "nc"],
      [tag |-> "CMA", platform |-> "metop01", start |-> <<"T1", "s">>, ext |-> "xml"]>>

\* the i-th file there can be around orbit orb: orbit by orbit from
\* orb - OrbitSpan on, in the order of FileKinds; the orbit number in a name
\* has five digits, zero filled
DiskFile(orb, i) ==
    LET n == (orb - OrbitSpan) + ((i - 1) \div Len(FileKinds))
        kind == FileKinds[((i - 1) % Len(FileKinds)) + 1]
    IN  [dir |-> "out", tag |-> kind.tag, platform |-> kind.platform,
         orbit |-> ZeroFill(IntStr(n), 5), start |-> kind.start,
         ext |-> kind.ext]

\* the indexes of the files of the orbits orb - OrbitSpan .. orb + OrbitSpan
\* that are not below zero
DiskIndexes(orb) ==
    {i \in 1..((2 * OrbitSpan + 1) * Len(FileKinds)) :
        (orb - OrbitSpan) + ((i - 1) \div Len(FileKinds)) >= 0}

\* the disks: empty, or up to three files
Disks(orb) ==
    {{}} \cup
    {{DiskFile(orb, i), DiskFile(orb, j), DiskFile(orb, k)} :
        <<i, j, k>> \in {t \in DiskIndexes(orb) \X DiskIndexes(orb)
                                 \X DiskIndexes(orb) :
                            t[1] <= t[2] /\ t[2] <= t[3]}}

NoXmlOut == [done |-> FALSE, files |-> {}]

XmlInit ==
    /\ \E orb \in XmlOrbits :
          /\ \E st \in {<<>>, <<"T1">>} :
                xmlIn = [path |-> "out", platform_name |-> "metop01",
                         orb |-> orb, st_time |-> st]
          /\ disk \in Disks(orb)
    /\ xpc = "call"
    /\ xmlOut = NoXmlOut

\* one call of get_xml_outputfiles
GetXmlOutputfiles ==
    /\ xpc = "call"
    /\ xmlOut' = [done |-> TRUE, files |-> get_xml_outputfiles(xmlIn, disk)]
    /\ xpc' = "returned"
    /\ UNCHANGED <<disk, xmlIn>>


-----------------------------------------------------------------------------
(* create_xml_timestat_from_lvl1c and create_xml_timestat_from_ascii.  A   *)
(* path is the sequence of its parts; PPSTimeControl belongs to PPS, and   *)
(* each of its calls either completes or raises.                           *)

\* parse(f_pattern, l1c_file): the fields of a name that has the form
\* S_NWC_{name_tag}_{platform_id}_{orbit_number}_{start_time}Z_{end_time}Z{file_type},
\* ValueError for another name
TrollsiftParse(name) ==
    IF Len(name) = 7 /\ name[1] = "S_NWC_"
    THEN [exc |-> NoneStr, name_tag |-> name[2], platform_id |-> name[3],
          orbit_number |-> name[4], start_time |-> name[5],
          end_time |-> name[6], file_type |-> name[7]]
    ELSE [exc |-> "ValueError", name_tag |-> "", platform_id |-> "",
          orbit_number |-> "", start_time |-> "", end_time |-> "",
          file_type |-> ""]

\* compose(f_pattern, data)
TrollsiftCompose(data) ==
    <<"S_NWC_", data.name_tag, data.platform_id, data.orbit_number,
      data.start_time, data.end_time, data.file_type>>

\* create_pps_file_from_lvl1c, for a path [dir, name] of the level-1c file
create_pps_file_from_lvl1c(l1c_file_name, pps_control_path, name_tag, file_type) ==
    LET data == TrollsiftParse(l1c_file_name.name)
    IN  IF data.exc # NoneStr
        THEN [exc |-> data.exc, dir |-> <<>>, name |-> <<>>]
        ELSE [exc |-> NoneStr, dir |-> pps_control_path,
              name |-> TrollsiftCompose([data EXCEPT !.name_tag = name_tag,
                                                     !.file_type = file_type])]

\* str.replace(old, new) on a sequence of parts: every occurrence
StrReplace(str, old, new) ==
    [i \in 1..Len(str) |-> IF str[i] = old THEN new ELSE str[i]]

\* infile.replace('.txt', '.xml') for a path [dir, name]
XmlNameOf(txt) ==
    [dir |-> StrReplace(txt.dir, ".txt", ".xml"),
     name |-> StrReplace(txt.name, ".txt", ".xml")]

\* the level-1c file names a scene can carry
L1cNames ==
    {<<"S_NWC_", "avhrr", "metopb", "46878", "T1", "T2", ".nc">>,
     <<"S_NWC_", "viirs", "npp", "00012", "T3", "T4", ".nc">>,
     <<"S_NWC_", "modis", "eos2", "12345", "T5", "T6", ".nc">>,
     <<"hrpt_metop01_T1.l1b">>}

\* the directories given as pps_control_path
ControlPaths == {<<"/ctrl">>, <<"/data", "/ctrl">>, <<"/run", ".txt", "/ctrl">>}

\* scene.get('file4pps'): absent, or the path of the level-1c file
TimeScenes ==
    {[has_file4pps |-> FALSE, file4pps |-> [dir |-> <<>>, name |-> <<>>]]}
    \cup {[has_file4pps |-> TRUE, file4pps |-> [dir |-> <<"/l1c">>, name |-> n]] :
             n \in L1cNames}

NoPath == [dir |-> <<>>, name |-> <<>>]

NoTimeOut == [exc |-> NoneStr, files |-> <<>>]

TimeInit ==
    /\ timeIn \in [scene : TimeScenes, pps_control_path : ControlPaths,
                   txt_exists : BOOLEAN]
    /\ spc = "lvl1c"
    /\ infile = NoPath
    /\ failedStep = NoneStr
    /\ xmlWritten = FALSE
    /\ timeOut = NoTimeOut

\* create_xml_timestat_from_lvl1c up to the call of
\* create_xml_timestat_from_ascii: a scene without 'file4pps' (KeyError) and
\* a missing ascii file give [], a ValueError of parse is not handled
TimestatFromLvl1c ==
    /\ spc = "lvl1c"
    /\ IF ~timeIn.scene.has_file4pps
       THEN /\ spc' = "returned"
            /\ timeOut' = [exc |-> NoneStr, files |-> <<>>]
            /\ UNCHANGED infile
       ELSE LET txt == create_pps_file_from_lvl1c(
                           timeIn.scene.file4pps, timeIn.pps_control_path,
                           "timectrl", ".txt")
            IN  IF txt.exc # NoneStr
                THEN /\ spc' = "raised"
                     /\ timeOut' = [exc |-> txt.exc, files |-> <<>>]
                     /\ UNCHANGED infile
                ELSE IF timeIn.txt_exists
                THEN /\ spc' = "import"
                     /\ infile' = [dir |-> txt.dir, name |-> txt.name]
                     /\ UNCHANGED timeOut
                ELSE /\ spc' = "returned"
                     /\ timeOut' = [exc |-> NoneStr, files |-> <<>>]
                     /\ UNCHANGED infile
    /\ UNCHANGED <<timeIn, failedStep, xmlWritten>>

\* from pps_time_control import PPSTimeControl; ImportError gives []
ImportConverter ==
    /\ spc = "import"
    /\ \/ /\ spc' = "construct"
          /\ UNCHANGED <<failedStep, timeOut>>
       \/ /\ failedStep' = "import"
          /\ spc' = "returned"
          /\ timeOut' = [exc |-> NoneStr, files |-> <<>>]
    /\ UNCHANGED <<timeIn, infile, xmlWritten>>

\* ppstime_con = PPSTimeControl(infile): reads the ascii file; outside any
\* try statement
ReadAscii ==
    /\ spc = "construct"
    /\ \/ /\ spc' = "sum_up"
          /\ UNCHANGED <<failedStep, timeOut>>
       \/ /\ failedStep' = "read"
          /\ spc' = "raised"
          /\ timeOut' = [exc |-> "Exception", files |-> <<>>]
    /\ UNCHANGED <<timeIn, infile, xmlWritten>>

\* ppstime_con.sum_up_processing_times(): outside any try statement
SumUp ==
    /\ spc = "sum_up"
    /\ \/ /\ spc' = "write_xml"
          /\ UNCHANGED <<failedStep, timeOut>>
       \/ /\ failedStep' = "sum_up"
          /\ spc' = "raised"
          /\ timeOut' = [exc |-> "Exception", files |-> <<>>]
    /\ UNCHANGED <<timeIn, infile, xmlWritten>>

\* ppstime_con.write_xml() in "try ... except Exception": a failure is
\* logged and the function goes on
WriteXml ==
    /\ spc = "write_xml"
    /\ \/ /\ xmlWritten' = TRUE
          /\ UNCHANGED failedStep
       \/ /\ failedStep' = "write_xml"
          /\ UNCHANGED xmlWritten
    /\ spc' = "return"
    /\ UNCHANGED <<timeIn, infile, timeOut>>

\* return [infile.replace('.txt', '.xml')]
ReturnXml ==
    /\ spc = "return"
    /\ timeOut' = [exc |-> NoneStr, files |-> <<XmlNameOf(infile)>>]
    /\ spc' = "returned"
    /\ UNCHANGED <<timeIn, infile, failedStep, xmlWritten>>

-----------------------------------------------------------------------------
(* publish_pps_files.  A dict is a function from its keys; a file name is  *)
(* the sequence of its parts; publish_q.put and publish_q.send either      *)
(* complete or raise.                                                      *)

MaxResultFiles == 2

\* d.pop(key, None)
DictPop(d, key) == [k \in DOMAIN d \ {key} |-> d[k]]

\* d[key] = value
DictSet(d, key, value) ==
    [k \in DOMAIN d \cup {key} |-> IF k = key THEN value ELSE d[k]]

\* parse(PPS_OUT_PATTERN, filename), then parse(PPS_OUT_PATTERN_MULTIPLE,
\* filename), then parse(PPS_STAT_PATTERN, filename): the start and end
\* time of the name, or the ValueError of the last parse
ParseResultName(filename) ==
    IF Len(filename) = 8 /\ filename[1] = "S_NWC" /\ filename[7] = "."
    THEN [exc |-> NoneStr, start_time |-> filename[5], end_time |-> filename[6]]
    ELSE IF Len(filename) = 9 /\ filename[1] = "S_NWC" /\ filename[8] = "."
            /\ filename[7] # "_statistics"
    THEN [exc |-> NoneStr, start_time |-> filename[6], end_time |-> filename[7]]
    ELSE IF Len(filename) = 9 /\ filename[1] = "S_NWC"
            /\ SubSeq(filename, 7, 9) = <<"_statistics", ".", "xml">>
    THEN [exc |-> NoneStr, start_time |-> filename[5], end_time |-> filename[6]]
    ELSE [exc |-> "ValueError", start_time |-> "", end_time |-> ""]

\* result_file.endswith(suffix), for a suffix of one part
EndsWith(result_file, suffix) ==
    result_file # <<>> /\ result_file[Len(result_file)] = suffix

\* scene.get('instrument', None), scene.get('sensor', None) when that is
\* None or empty
SceneSensor(scene) ==
    LET instrument == IF "instrument" \in DOMAIN scene
                      THEN scene["instrument"] ELSE NoneStr
    IN  IF instrument \in {NoneStr, ""}
        THEN IF "sensor" \in DOMAIN scene THEN scene["sensor"] ELSE NoneStr
        ELSE instrument

\* to_send up to the extension tests: the copy of input_msg.data without
\* 'dataset' and 'collection', with the fields of the file and the scene
ToSendBase(data, scene, result_file) ==
    LET d1 == DictPop(DictPop(data, "dataset"), "collection")
        d2 == DictSet(d1, "uri", result_file)
        d3 == DictSet(d2, "uid", result_file)
        d4 == DictSet(d3, "sensor", SceneSensor(scene))
        d5 == DictSet(d4, "platform_name", scene["platform_name"])
    IN  DictSet(d5, "orbit_number", scene["orbit_number"])

\* the two extension tests, 'data_processing_level' and the times
ToSend(data, scene, result_file, metadata) ==
    LET d0 == ToSendBase(data, scene, result_file)
        d1 == IF EndsWith(result_file, "xml")
              THEN DictSet(DictSet(d0, "format", "PPS-XML"), "type", "XML")
              ELSE d0
        d2 == IF EndsWith(result_file, "nc")
              THEN DictSet(DictSet(d1, "format", "CF"), "type", "netCDF4")
              ELSE d1
        d3 == DictSet(d2, "data_processing_level", "2")
        d4 == DictSet(d3, "start_time", metadata.start_time)
    IN  DictSet(d4, "end_time", metadata.end_time)

\* Message('/' + format + '/' + level + '/' + station +
\* '/polar/direct_readout/', "file", to_send)
MakeMessage(to_send, station) ==
    [subject |-> <<"/", to_send["format"], "/",
                   to_send["data_processing_level"], "/", station,
                   "/polar/direct_readout/">>,
     type |-> "file",
     data |-> to_send]

NoMessage == [subject |-> <<>>, type |-> "", data |-> <<>>]

\* the names of result files: a product, a statistics file, a product with
\* two segments, a product statistics file, a file of another format, a
\* file that is not a PPS output
ResultNames ==
    {<<"S_NWC", "CTTH", "noaa19", "00001", "T1", "T2", ".", "nc">>,
     <<"S_NWC", "timectrl", "noaa19", "00001", "T1", "T2", ".", "xml">>,
     <<"S_NWC", "CMA", "PROB", "noaa19", "00001", "T1", "T2", ".", "nc">>,
     <<"S_NWC", "CMA", "noaa19", "00001", "T1", "T2", "_statistics", ".", "xml">>,
     <<"S_NWC", "CTTH", "noaa19", "00001", "T1", "T2", ".", "h5">>,
     <<"core", ".", "dump">>}

RECURSIVE SeqsUpTo(_, _)
\* the non-empty sequences over S of length at most n
SeqsUpTo(S, n) ==
    IF n = 0 THEN {}
    ELSE {<<x>> : x \in S}
         \cup {Append(q, x) : q \in SeqsUpTo(S, n - 1), x \in S}

\* input_msg.data
EventDatas ==
    {[uri |-> <<"l1c">>],
     [uri |-> <<"l1c">>, format |-> "HRPT", type |-> "binary"],
     [uri |-> <<"l1c">>, format |-> "PPS-L1C", type |-> "netCDF4",
      dataset |-> "ds", collection |-> "col"]}

PubScenes ==
    {[platform_name |-> "NOAA-19", orbit_number |-> "1", instrument |-> "avhrr"],
     [platform_name |-> "NOAA-19", orbit_number |-> "1", sensor |-> "avhrr/3"]}

\* kwargs.get('station', 'unknown')
Stations == {"unknown", "norrkoping"}

PubInit ==
    /\ \E data \in EventDatas, scene \in PubScenes, station \in Stations,
          files \in SeqsUpTo(ResultNames, MaxResultFiles) :
          pubIn = [data |-> data, scene |-> scene, station |-> station,
                   result_files |-> files]
    /\ inputData = pubIn.data
    /\ qpc = "build"
    /\ fileNo = 1
    /\ pubmsg = NoMessage
    /\ emitted = <<>>
    /\ attempts = <<>>
    /\ pubExc = NoneStr

\* one turn of the loop up to the encoded message: a name no pattern parses
\* (ValueError) and a to_send without 'format' (KeyError) leave the function
BuildMessage ==
    /\ qpc = "build"
    /\ fileNo <= Len(pubIn.result_files)
    /\ LET result_file == pubIn.result_files[fileNo]
           metadata == ParseResultName(result_file)
           to_send == ToSend(inputData, pubIn.scene, result_file, metadata)
       IN  IF metadata.exc # NoneStr
           THEN /\ qpc' = "raised"
                /\ pubExc' = metadata.exc
                /\ UNCHANGED pubmsg
           ELSE IF "format" \notin DOMAIN to_send
           THEN /\ qpc' = "raised"
                /\ pubExc' = "KeyError"
                /\ UNCHANGED pubmsg
           ELSE /\ qpc' = "put"
                /\ pubmsg' = MakeMessage(to_send, pubIn.station)
                /\ UNCHANGED pubExc
    /\ UNCHANGED <<pubIn, inputData, fileNo, emitted, attempts>>

\* publish_q.put(pubmsg) in "try ... except Exception"
QueuePut ==
    /\ qpc = "put"
    /\ \/ /\ emitted' = Append(emitted, [file |-> fileNo, via |-> "put",
                                         message |-> pubmsg])
          /\ attempts' = Append(attempts, [file |-> fileNo, op |-> "put",
                                           ok |-> TRUE])
          /\ qpc' = "build"
          /\ fileNo' = fileNo + 1
       \/ /\ attempts' = Append(attempts, [file |-> fileNo, op |-> "put",
                                           ok |-> FALSE])
          /\ qpc' = "send"
          /\ UNCHANGED <<emitted, fileNo>>
    /\ UNCHANGED <<pubIn, inputData, pubmsg, pubExc>>

\* publish_q.send(pubmsg) in the except branch: its exception is not handled
QueueSend ==
    /\ qpc = "send"
    /\ \/ /\ emitted' = Append(emitted, [file |-> fileNo, via |-> "send",
                                         message |-> pubmsg])
          /\ attempts' = Append(attempts, [file |-> fileNo, op |-> "send",
                                           ok |-> TRUE])
          /\ qpc' = "build"
          /\ fileNo' = fileNo + 1
          /\ UNCHANGED pubExc
       \/ /\ attempts' = Append(attempts, [file |-> fileNo, op |-> "send",
                                           ok |-> FALSE])
          /\ qpc' = "raised"
          /\ pubExc' = "Exception"
          /\ UNCHANGED <<emitted, fileNo>>
    /\ UNCHANGED <<pubIn, inputData, pubmsg>>

\* the for loop has no file left: publish_pps_files returns
PublishReturns ==
    /\ qpc = "build"
    /\ fileNo > Len(pubIn.result_files)
    /\ qpc' = "returned"
    /\ UNCHANGED <<pubIn, inputData, fileNo, pubmsg, emitted, attempts, pubExc>>

-----------------------------------------------------------------------------
(* A component at rest: the state of its variables while another component *)
(* runs                                                                    *)

ReadyParked ==
    /\ files4pps = EmptyIndex
    /\ accessible = {}
    /\ rpc = "off"
    /\ msg = NoMsg
    /\ ret = NoRet
    /\ before = EmptyIndex
    /\ redelivered = FALSE

SceneParked ==
    /\ sidA = SceneId("", 0, 0, 0)
    /\ sidB = SceneId("", 0, 0, 0)
    /\ sidC = SceneId("", 0, 0, 0)
    /\ eqAB = "off"
    /\ eqChain = NoChain
    /\ hashes = NoHashes

CmdParked ==
    /\ environ = [LVL1_NPP_PATH |-> Absent, LVL1_EOS_PATH |-> Absent]
    /\ cmdIn = <<>>
    /\ cpc = "off"
    /\ cmdOut = NoCmdOut
    /\ cmdFirst = NoFirst

ProcParked ==
    /\ ppc = "off"
    /\ child = "none"
    /\ status = NoneStr
    /\ returncode = NoneStr
    /\ left = <<>>
    /\ pipes = [s \in Streams |-> <<>>]
    /\ readers = [s \in Streams |-> "unstarted"]
    /\ logged = <<>>
    /\ tpc = "off"
    /\ termRecord = NoneStr
    /\ exitedAtCheck = FALSE
    /\ killCalled = FALSE
    /\ written = [s \in Streams |-> <<>>]
    /\ spawnExc = NoneStr
    /\ raisedExc = NoneStr

XmlParked ==
    /\ disk = {}
    /\ xmlIn = [path |-> "", platform_name |-> "", orb |-> 0, st_time |-> <<>>]
    /\ xpc = "off"
    /\ xmlOut = NoXmlOut

TimeParked ==
    /\ timeIn = [scene |-> [has_file4pps |-> FALSE, file4pps |-> NoPath],
                 pps_control_path |-> <<>>, txt_exists |-> FALSE]
    /\ spc = "off"
    /\ infile = NoPath
    /\ failedStep = NoneStr
    /\ xmlWritten = FALSE
    /\ timeOut = NoTimeOut

PubParked ==
    /\ pubIn = [data |-> <<>>, scene |-> <<>>, station |-> "",
                result_files |-> <<>>]
    /\ inputData = <<>>
    /\ qpc = "off"
    /\ fileNo = 0
    /\ pubmsg = NoMessage
    /\ emitted = <<>>
    /\ attempts = <<>>
    /\ pubExc = NoneStr

-----------------------------------------------------------------------------
(* Specifications: one per component, the other components at rest         *)

othersReady == <<sceneVars, cmdVars, procVars, xmlVars, timeVars, pubVars>>

othersScene == <<readyVars, cmdVars, procVars, xmlVars, timeVars, pubVars>>

othersCmd == <<readyVars, sceneVars, procVars, xmlVars, timeVars, pubVars>>

othersProc == <<readyVars, sceneVars, cmdVars, xmlVars, timeVars, pubVars>>

othersXml == <<readyVars, sceneVars, cmdVars, procVars, timeVars, pubVars>>

othersTime == <<readyVars, sceneVars, cmdVars, procVars, xmlVars, pubVars>>

othersPub == <<readyVars, sceneVars, cmdVars, procVars, xmlVars, timeVars>>

ReadyNext ==
    \/ FsChange /\ UNCHANGED othersReady
    \/ Receive /\ UNCHANGED othersReady
    \/ Evaluate /\ UNCHANGED othersReady
    \/ Return /\ UNCHANGED othersReady
    \/ Redeliver /\ UNCHANGED othersReady

InitReady ==
    /\ ReadyInit
    /\ SceneParked
    /\ CmdParked
    /\ ProcParked
    /\ XmlParked
    /\ TimeParked
    /\ PubParked

SpecReady == InitReady /\ [][ReadyNext]_vars

SceneNext ==
    \/ CompareScenes /\ UNCHANGED othersScene
    \/ CompareChain /\ UNCHANGED othersScene
    \/ HashScenes /\ UNCHANGED othersScene

InitScene ==
    /\ SceneInit
    /\ ReadyParked
    /\ CmdParked
    /\ ProcParked
    /\ XmlParked
    /\ TimeParked
    /\ PubParked

SpecScene == InitScene /\ [][SceneNext]_vars

CmdNext ==
    \/ BuildSequence /\ UNCHANGED othersCmd
    \/ BuildCommand /\ UNCHANGED othersCmd
    \/ RunCommandSplit /\ UNCHANGED othersCmd
    \/ EnvironChange /\ UNCHANGED othersCmd
    \/ BuildSequenceAgain /\ UNCHANGED othersCmd
    \/ BuildCommandAgain /\ UNCHANGED othersCmd

InitCmd ==
    /\ CmdInit
    /\ ReadyParked
    /\ SceneParked
    /\ ProcParked
    /\ XmlParked
    /\ TimeParked
    /\ PubParked

SpecCmd == InitCmd /\ [][CmdNext]_vars

ProcNext ==
    \/ PopenStarts /\ UNCHANGED othersProc
    \/ PopenFails /\ UNCHANGED othersProc
    \/ StartReader /\ UNCHANGED othersProc
    \/ JoinReader /\ UNCHANGED othersProc
    \/ ProcWait /\ UNCHANGED othersProc
    \/ LogReader /\ UNCHANGED othersProc
    \/ ChildWrite /\ UNCHANGED othersProc
    \/ ChildExit /\ UNCHANGED othersProc
    \/ TerminateCheck /\ UNCHANGED othersProc
    \/ TerminateKill /\ UNCHANGED othersProc
    \/ TerminateFinished /\ UNCHANGED othersProc

InitProc ==
    /\ ProcInit
    /\ ReadyParked
    /\ SceneParked
    /\ CmdParked
    /\ XmlParked
    /\ TimeParked
    /\ PubParked

SpecProc == InitProc /\ [][ProcNext]_vars

XmlNext == GetXmlOutputfiles /\ UNCHANGED othersXml

InitXml ==
    /\ XmlInit
    /\ ReadyParked
    /\ SceneParked
    /\ CmdParked
    /\ ProcParked
    /\ TimeParked
    /\ PubParked

SpecXml == InitXml /\ [][XmlNext]_vars

TimeNext ==
    \/ TimestatFromLvl1c /\ UNCHANGED othersTime
    \/ ImportConverter /\ UNCHANGED othersTime
    \/ ReadAscii /\ UNCHANGED othersTime
    \/ SumUp /\ UNCHANGED othersTime
    \/ WriteXml /\ UNCHANGED othersTime
    \/ ReturnXml /\ UNCHANGED othersTime

InitTime ==
    /\ TimeInit
    /\ ReadyParked
    /\ SceneParked
    /\ CmdParked
    /\ ProcParked
    /\ XmlParked
    /\ PubParked

SpecTime == InitTime /\ [][TimeNext]_vars

PubNext ==
    \/ BuildMessage /\ UNCHANGED othersPub
    \/ QueuePut /\ UNCHANGED othersPub
    \/ QueueSend /\ UNCHANGED othersPub
    \/ PublishReturns /\ UNCHANGED othersPub

InitPub ==
    /\ PubInit
    /\ ReadyParked
    /\ SceneParked
    /\ CmdParked
    /\ ProcParked
    /\ XmlParked
    /\ TimeParked

SpecPub == InitPub /\ [][PubNext]_vars

-----------------------------------------------------------------------------
(* Properties of ready2run.  Each is a predicate of the state in which a   *)
(* call has just ended (rpc = "returned"): msg is the event, ret the way   *)
(* the call ended, before the index at the start, files4pps the index now. *)

Returned == rpc = "returned"

\* the uri the call looks at
EventUri == IF msg.destination = NoneStr THEN msg.uri
            ELSE [netloc |-> "", path |-> <<msg.destination, msg.uid>>]

ResolvesLocal(h) == gethostbyname(h) \in get_local_ips

ResolvesElsewhere(h) ==
    gethostbyname(h) # "gaierror" /\ gethostbyname(h) \notin get_local_ips

\* the file lies on another host and cannot be stat-ed on this one
FileUnaccessible ==
    /\ EventUri.netloc # ""
    /\ ResolvesElsewhere(EventUri.netloc)
    /\ EventUri.path \notin accessible

PassesKind == msg.type = "file"

PassesPath == ~FileUnaccessible

PassesHost == msg.host = "absent" \/ ~ResolvesElsewhere(msg.host)

\* the families of section 4.1 and the sensors each expects
ExpectedSensors(p) ==
    CASE p \in SUPPORTED_SEVIRI_SATELLITES -> {"seviri"}
      [] p \in SUPPORTED_MODIS_SATELLITES -> {"modis"}
      [] p \in SUPPORTED_VIIRS_SATELLITES -> {"viirs"}
      [] p \in SUPPORTED_METIMAGE_SATELLITES -> {"metimage"}
      [] p \in SUPPORTED_AVHRR_SATELLITES -> {"avhrr/3", "amsu-a", "amsu-b", "mhs"}
      [] OTHER -> {}

InKnownFamily(p) == p \in SUPPORTED_PPS_SATELLITES

PassesSensor ==
    /\ msg.sensor \in PPS_SENSORS
    /\ InKnownFamily(msg.platform_name)
    /\ msg.sensor \in ExpectedSensors(msg.platform_name)

OrbitParses ==
    \/ msg.orbit_number.tag = "int"
    \/ /\ msg.orbit_number.tag = "str"
       /\ msg.orbit_number.text # <<>>
       /\ \A i \in 1..Len(msg.orbit_number.text) :
             msg.orbit_number.text[i] \in
                {"0", "1", "2", "3", "4", "5", "6", "7", "8", "9"}

PassesOrbitPlatform ==
    OrbitParses /\ msg.platform_name \in DOMAIN SATELLITE_NAME

PassesAll ==
    PassesKind /\ PassesPath /\ PassesHost /\ PassesSensor /\ PassesOrbitPlatform

\* the record of the event's scene holds the event's path as its last file
PathAppended ==
    \E k \in DOMAIN files4pps :
        /\ k[1] = msg.platform_name
        /\ Len(files4pps[k]) >= 1
        /\ files4pps[k][Len(files4pps[k])] = EventUri.path
        /\ \/ k \notin DOMAIN before
           \/ Len(files4pps[k]) = Len(before[k]) + 1

\* C1: every event that passes the kind, path, host, sensor and
\* orbit/platform checks has its path appended as the last file of its
\* scene's record (created if absent), and the call raises nothing.
C1_AppendsAndCompletes ==
    (Returned /\ PassesAll) => (ret.value # "raise" /\ PathAppended)

\* C2: the call returns True exactly when the event passes all earlier
\* checks and its platform is in the supported set (the record then holds
\* at least the file just appended).
C2_ReadyExactlyWhen ==
    Returned =>
        (ret.value = "True" <=>
            (PassesAll /\ msg.platform_name \in SUPPORTED_PPS_SATELLITES))

\* C3 as stated: a file event past the path and host checks gets False, and
\* no error, whenever its sensor is not consumed, its platform is in no
\* known family, or its sensor is not the one its family expects.
C3_NotReadyOnSensorOrPlatform ==
    (Returned /\ PassesKind /\ PassesPath /\ PassesHost /\ ~PassesSensor)
        => ret.value = "False"

\* the sensor test as the code makes it: a platform in none of the SEVIRI,
\* MODIS, VIIRS and METIMAGE lists is held to the NOAA/Metop sensors
SensorRefused ==
    \/ msg.sensor \notin PPS_SENSORS
    \/ msg.platform_name \in SUPPORTED_SEVIRI_SATELLITES /\ msg.sensor # "seviri"
    \/ msg.platform_name \in SUPPORTED_MODIS_SATELLITES /\ msg.sensor # "modis"
    \/ msg.platform_name \in SUPPORTED_VIIRS_SATELLITES /\ msg.sensor # "viirs"
    \/ msg.platform_name \in SUPPORTED_METIMAGE_SATELLITES /\ msg.sensor # "metimage"
    \/ /\ msg.platform_name \notin
             SUPPORTED_SEVIRI_SATELLITES \cup SUPPORTED_MODIS_SATELLITES \cup
             SUPPORTED_VIIRS_SATELLITES \cup SUPPORTED_METIMAGE_SATELLITES
       /\ msg.sensor \notin {"avhrr/3", "amsu-a", "amsu-b", "mhs"}

\* C3 amended: a file event past the path and host checks gets False, and
\* no error, whenever its sensor is not consumed or is not the one expected
\* for its platform (every platform outside the SEVIRI, MODIS, VIIRS and
\* METIMAGE lists counting as NOAA/Metop); a platform that is not in the
\* satellite table gets False when its orbit number parses.
C3_NotReadyAmended ==
    (Returned /\ PassesKind /\ PassesPath /\ PassesHost) =>
        /\ SensorRefused => ret.value = "False"
        /\ (msg.platform_name \notin DOMAIN SATELLITE_NAME /\ OrbitParses)
              => ret.value = "False"

\* C3 witness: an unknown platform with a NOAA/Metop sensor and a good
\* orbit number is refused at the satellite table
C3_Witness ==
    /\ Returned /\ PassesKind /\ PassesPath /\ PassesHost
    /\ msg.platform_name = "GOES-16" /\ msg.sensor = "avhrr/3"
    /\ OrbitParses
    /\ ret = Outcome("False", "satellite_name", NoneStr)

\* C4 as stated: every file event whose orbit number is missing or does
\* not parse ends in an error, the index unchanged.
C4_BadOrbitRaises ==
    (Returned /\ PassesKind /\ ~OrbitParses)
        => (ret.value = "raise" /\ files4pps = before)

\* C4 amended: a file event that passes the path, host and sensor checks
\* and whose orbit number is missing or does not parse ends in an error
\* (KeyError or ValueError), the index unchanged.
C4_BadOrbitRaisesAmended ==
    (Returned /\ PassesKind /\ PassesPath /\ PassesHost /\ ~SensorRefused
       /\ ~OrbitParses)
        => /\ ret.value = "raise"
           /\ ret.exc = (IF msg.orbit_number.tag = "missing"
                         THEN "KeyError" ELSE "ValueError")
           /\ files4pps = before

\* C4 witness: an event past the sensor checks with an orbit text that is
\* no number ends in ValueError
C4_Witness ==
    /\ Returned /\ PassesKind /\ PassesPath /\ PassesHost /\ ~SensorRefused
    /\ msg.orbit_number.tag = "str" /\ ~OrbitParses
    /\ ret = Outcome("raise", "orbit_number", "ValueError")

\* C5 as stated: with an origin host, True only if the host resolved to a
\* local address; a host that resolves elsewhere or does not resolve gives
\* False and leaves the index alone.
C5_HostMustBeLocal ==
    (Returned /\ msg.host # "absent") =>
        /\ ret.value = "True" => ResolvesLocal(msg.host)
        /\ ~ResolvesLocal(msg.host)
              => (ret.value = "False" /\ files4pps = before)

\* C5 amended: a host that resolves to an address that is not local gives
\* False and leaves the index alone, and True is never returned for such a
\* host; a host that does not resolve is only logged: the event goes on to
\* the sensor, orbit and platform checks, which decide it.
C5_HostAmended ==
    (Returned /\ msg.host # "absent") =>
        /\ ret.value = "True" => ~ResolvesElsewhere(msg.host)
        /\ ResolvesElsewhere(msg.host)
              => (ret.value = "False" /\ files4pps = before)
        /\ (ResolvesElsewhere(msg.host) /\ PassesKind /\ PassesPath)
              => ret.at = "host"
        /\ (gethostbyname(msg.host) = "gaierror" /\ PassesKind /\ PassesPath)
              => ret.at \in {"sensor", "platform_sensor", "orbit_number",
                             "satellite_name", "append", "nofiles",
                             "supported", "end"}

\* C5 witness: a file event from another host is refused at the host check
C5_Witness ==
    /\ Returned /\ PassesKind /\ PassesPath
    /\ msg.host = "otherhost"
    /\ ~SensorRefused /\ PassesOrbitPlatform
    /\ ret = Outcome("False", "host", NoneStr)
    /\ files4pps = before

\* C6: a file on another host that cannot be stat-ed here gives False, no
\* error, the index unchanged; the same event delivered again when the file
\* can be stat-ed is not stopped at the file check.
C6_UnaccessibleIsRetryable ==
    /\ (Returned /\ PassesKind /\ FileUnaccessible)
          => (ret = Outcome("False", "check_uri", NoneStr) /\ files4pps = before)
    /\ (Returned /\ redelivered /\ EventUri.path \in accessible)
          => ret.at # "check_uri"

\* C6 witness: an event refused at the file check is delivered again with
\* the file in place and goes past the file check
C6_Witness ==
    /\ Returned /\ redelivered
    /\ EventUri.netloc = "otherhost"
    /\ EventUri.path \in accessible
    /\ ret.at = "host"

-----------------------------------------------------------------------------
(* Properties of SceneId                                                   *)

\* C7: a == b exactly when the platform names are equal, the orbit numbers
\* are equal and the start times differ by strictly less than a's
\* tolerance; a difference of exactly the tolerance gives not-equal.
C7_EqualityWithinTolerance ==
    eqAB \in {"True", "False"} =>
        LET d == sidA.starttime - sidB.starttime
            tol == sidA.threshold * TicksPerMinute
        IN  /\ eqAB = "True" <=>
                 /\ sidA.platform_name = sidB.platform_name
                 /\ sidA.orbit_number = sidB.orbit_number
                 /\ d < tol /\ 0 - d < tol
            /\ (d = tol \/ 0 - d = tol) => eqAB = "False"

\* C7 witness: same platform and orbit, start times exactly the default
\* tolerance apart, compared not-equal
C7_Witness ==
    /\ eqAB = "False"
    /\ sidA.platform_name = sidB.platform_name
    /\ sidA.orbit_number = sidB.orbit_number
    /\ sidA.threshold = DefaultThreshold
    /\ sidB.starttime - sidA.starttime = DefaultThreshold * TicksPerMinute

-----------------------------------------------------------------------------
(* Properties of the command builders                                      *)

\* the override the configuration gives for a variable: the environment's
\* value if it has one, else the options' value
Configured(name) ==
    IF environ[name].set THEN environ[name] ELSE cmdIn.options[name]

\* the argument sequence section 4.2 describes for protocol A
ExpectedSequence ==
    LET p == cmdIn.scene.platform_name
        modis == p \in SUPPORTED_MODIS_SATELLITES
        viirs == p \in SUPPORTED_VIIRS_SATELLITES
        head == <<cmdIn.pps_script_name,
                  <<SATELLITE_NAME[p]>>,
                  IntStr(cmdIn.scene.orbit_number),
                  IF modis THEN cmdIn.scene.satday ELSE <<"0">>,
                  IF modis THEN cmdIn.scene.sathour ELSE <<"0">>,
                  IntStr(cmdIn.options.aapp_level1files_max_minutes_old)>>
    IN  IF viirs /\ Truthy(Configured("LVL1_NPP_PATH"))
        THEN Append(head, Configured("LVL1_NPP_PATH").val)
        ELSE IF modis /\ Truthy(Configured("LVL1_EOS_PATH"))
        THEN Append(head, Configured("LVL1_EOS_PATH").val)
        ELSE head

\* C8: for every scene of a platform with a satellite code, and every
\* options, create_pps_call_command_sequence returns exactly [scriptPath,
\* code, orbitNumber, satDay|"0", satHour|"0", maxInputAgeMinutes] followed
\* by the configured NPP (VIIRS) or EOS (MODIS) override path, if any.
C8_SequenceExact ==
    (cpc = "seq_done" /\ cmdIn.scene.platform_name \in DOMAIN SATELLITE_NAME)
        => (cmdOut.exc = NoneStr /\ cmdOut.argv = ExpectedSequence)

\* C9: for every interpreter path, script path and input file the argument
\* sequence of create_pps_call_command has exactly the four elements
\* [interpreterPath, scriptPath, "-af", inputFilePath], each input being one
\* unmodified element.
C9_CommandExact ==
    cpc = "cmd_split" =>
        /\ cmdOut.exc = NoneStr
        /\ cmdOut.argv = <<cmdIn.python_exec, cmdIn.pps_script_name,
                           <<"-af">>, cmdIn.scene.file4pps>>

-----------------------------------------------------------------------------
(* Properties of terminate_process                                         *)

\* C10: in every interleaving, terminate_process calls kill() and logs
\* "timed out" only if the child had not exited when it looked, and logs
\* "finished before time out", without kill(), whenever the child had
\* already exited.
C10_TerminateFollowsExit ==
    /\ (termRecord = "timed out" \/ killCalled) => ~exitedAtCheck
    /\ (tpc = "done" /\ exitedAtCheck)
          => (termRecord = "finished before time out" /\ ~killCalled)

-----------------------------------------------------------------------------
(* Properties of run_command and its two logreader threads                 *)

\* the texts LOG.info received from the reader of stream s, in order
RECURSIVE LoggedFrom(_, _)
LoggedFrom(log, s) ==
    IF log = <<>> THEN <<>>
    ELSE IF Head(log)[1] = s
         THEN <<Head(log)[2]>> \o LoggedFrom(Tail(log), s)
         ELSE LoggedFrom(Tail(log), s)

\* what the sink has to hold for stream s: each written line, stripped
Forwarded(s) == [i \in 1..Len(written[s]) |-> strip(written[s][i])]

C12_SpawnFailureReported ==
    spawnExc # NoneStr =>
        /\ ppc = "raised"
        /\ raisedExc = spawnExc
        /\ \A s \in Streams : readers[s] = "unstarted"
        /\ returncode = NoneStr

C12_Witness ==
    /\ spawnExc = "OSError"
    /\ ppc = "raised"
    /\ left # <<>>

-----------------------------------------------------------------------------
(* Properties of get_xml_outputfiles.  Each is a predicate of the state in *)
(* which the call has returned (xpc = "returned").                         *)

XmlReturned == xpc = "returned"

\* the orbit number in the name of a file
OrbitOf(f) == DigitsValue(f.orbit, 0)

\* the statistics files of orbit n that the call is looking for
MatchesAt(n) ==
    {f \in disk : /\ f.dir = xmlIn.path
                  /\ f.ext = "xml"
                  /\ f.platform = MetopLetterGet(xmlIn.platform_name)
                  /\ IsPrefix(xmlIn.st_time, f.start)
                  /\ OrbitOf(f) = n}

\* no statistics file at a distance of less than k from the orbit asked for
NoneNearerThan(k) ==
    \A d \in (1 - k)..(k - 1) : MatchesAt(xmlIn.orb + d) = {}

\* C13: the call returns the matches at the orbit asked for when there is
\* one; otherwise the matches of the first of the orbits +1, -1, +2, -2,
\* ..., +5, -5 away that has one, so orbit+k goes before orbit-k, and the
\* files returned never belong to different orbits.
C13_FirstOffsetWins ==
    XmlReturned =>
        /\ MatchesAt(xmlIn.orb) # {} => xmlOut.files = MatchesAt(xmlIn.orb)
        /\ \A k \in 1..5 :
              NoneNearerThan(k) =>
                 /\ MatchesAt(xmlIn.orb + k) # {}
                       => xmlOut.files = MatchesAt(xmlIn.orb + k)
                 /\ (MatchesAt(xmlIn.orb + k) = {}
                        /\ MatchesAt(xmlIn.orb - k) # {})
                       => xmlOut.files = MatchesAt(xmlIn.orb - k)
        /\ \A f \in xmlOut.files, g \in xmlOut.files : OrbitOf(f) = OrbitOf(g)

C13_Witness ==
    /\ XmlReturned
    /\ NoneNearerThan(2)
    /\ Cardinality(MatchesAt(xmlIn.orb + 2)) = 2
    /\ MatchesAt(xmlIn.orb - 2) # {}
    /\ xmlOut.files = MatchesAt(xmlIn.orb + 2)

\* C14: with no statistics file at the orbit asked for nor at any orbit up
\* to 5 away, the call returns the empty list; so it does for an orbit less
\* than 5 from zero, where it looks for orbits below zero.
C14_NothingFoundIsEmpty ==
    (XmlReturned /\ NoneNearerThan(6)) => (xmlOut.done /\ xmlOut.files = {})

C14_Witness ==
    /\ XmlReturned
    /\ xmlIn.orb < 5
    /\ NoneNearerThan(6)
    /\ MatchesAt(xmlIn.orb + 6) # {}
    /\ xmlOut.files = {}

-----------------------------------------------------------------------------
(* Properties of create_xml_timestat_from_lvl1c / _from_ascii              *)

TimestatOver == spc \in {"returned", "raised"}

\* C15: when a step of the conversion fails (loading the converter, reading
\* the ascii file, summing the processing times, writing the XML) the call
\* returns the empty list and no exception leaves it; a non-empty list is
\* returned only when the XML file was written.
C15_ConversionFailureIsEmpty ==
    TimestatOver =>
        /\ failedStep # NoneStr
              => (spc = "returned" /\ timeOut.exc = NoneStr
                     /\ timeOut.files = <<>>)
        /\ timeOut.files # <<>> => xmlWritten

-----------------------------------------------------------------------------
(* Properties of publish_pps_files.  Each is a predicate of the state in   *)
(* which the call is over (qpc is "returned" or "raised").                 *)

PublishOver == qpc \in {"returned", "raised"}

\* file number n of result_files has been attempted: put or sent
Attempted(n) == \E i \in 1..Len(attempts) : attempts[i].file = n

\* C16: a file whose put fails is sent with publish_q.send; when that send
\* fails too, every later file of result_files is still attempted.
C16_SendFailureIsPerFile ==
    PublishOver =>
        \A i \in 1..Len(attempts) :
            /\ (attempts[i].op = "put" /\ ~attempts[i].ok)
                  => /\ i < Len(attempts)
                     /\ attempts[i + 1].op = "send"
                     /\ attempts[i + 1].file = attempts[i].file
            /\ (attempts[i].op = "send" /\ ~attempts[i].ok)
                  => \A n \in (attempts[i].file + 1)..Len(pubIn.result_files) :
                        Attempted(n)

\* the format field of the original event, "None" when it has none
EventFormat ==
    IF "format" \in DOMAIN pubIn.data THEN pubIn.data["format"] ELSE NoneStr

\* the topic of a message of the given format
TopicOf(format) ==
    <<"/", format, "/", "2", "/", pubIn.station, "/polar/direct_readout/">>

\* C17: the format and type of an emitted message follow from the extension
\* of its file alone, ("PPS-XML", "XML") for xml and ("CF", "netCDF4") for
\* nc, the topic is /{format}/2/{station}/polar/direct_readout/, and a file
\* with neither extension gives no message that carries the format of the
\* original event.
C17_FormatFromExtension ==
    \A i \in 1..Len(emitted) :
        LET file == pubIn.result_files[emitted[i].file]
            data == emitted[i].message.data
        IN  /\ EndsWith(file, "xml")
                  => (data["format"] = "PPS-XML" /\ data["type"] = "XML")
            /\ EndsWith(file, "nc")
                  => (data["format"] = "CF" /\ data["type"] = "netCDF4")
            /\ emitted[i].message.subject = TopicOf(data["format"])
            /\ (~EndsWith(file, "xml") /\ ~EndsWith(file, "nc"))
                  => data["format"] # EventFormat

-----------------------------------------------------------------------------
(* Order of the checks of ready2run                                        *)

\* the first check the event fails, in the order event kind, path, origin
\* host, sensor consumed, sensor of the platform, orbit number, known
\* platform, supported platform; "none" when it fails none
FirstFailure ==
    IF ~PassesKind THEN "type"
    ELSE IF ~PassesPath THEN "check_uri"
    ELSE IF ~PassesHost THEN "host"
    ELSE IF msg.sensor \notin PPS_SENSORS THEN "sensor"
    ELSE IF SensorRefused THEN "platform_sensor"
    ELSE IF ~OrbitParses THEN "orbit_number"
    ELSE IF msg.platform_name \notin DOMAIN SATELLITE_NAME THEN "satellite_name"
    ELSE IF msg.platform_name \notin SUPPORTED_PPS_SATELLITES THEN "supported"
    ELSE "none"

\* C18: an event that fails a check ends the way its first failed check ends
\* (an error for the orbit number, False for every other check), whatever
\* the later checks would give, and the index is left as it was.
C18_FirstFailureDecides ==
    (Returned /\ FirstFailure # "none") =>
        /\ ret.at = FirstFailure
        /\ ret.value = (IF FirstFailure = "orbit_number" THEN "raise" ELSE "False")
        /\ files4pps = before

\* C18 witness: an event that is not a file event and has no orbit number
\* is refused for its kind
C18_Witness ==
    /\ Returned
    /\ msg.type # "file"
    /\ msg.orbit_number.tag = "missing"
    /\ ret = Outcome("False", "type", NoneStr)
    /\ files4pps = before

\* C19: whenever a call returns True, the record of the event's scene holds
\* at least one file, the path of the event among them.  (No call of
\* ready2run reaches "return True": see C1.)
C19_ReadyHasEventFile ==
    (Returned /\ ret.value = "True") =>
        \E k \in DOMAIN files4pps :
            /\ Len(files4pps[k]) >= 1
            /\ \E i \in 1..Len(files4pps[k]) : files4pps[k][i] = EventUri.path

\* no call has returned True
C19_ReadyNeverReturned == ret.value # "True"

-----------------------------------------------------------------------------
(* SceneId: equality against the key that is hashed                        *)

\* the canonical key: platform, orbit, start time cut to the whole minute
CanonicalKey(a) ==
    <<a.platform_name, a.orbit_number, a.starttime \div TicksPerMinute>>

Hashed == hashes # NoHashes

\* C20: two objects have the same hash exactly when they have the same
\* canonical key; two objects with the same canonical key are equal under
\* the default tolerance; and equality does not chain: with a == b and
\* b == c, a and c whose start times are the tolerance or more apart are
\* not equal.
C20_KeyFinerThanEquality ==
    Hashed =>
        /\ hashes[1] = hashes[2] <=> CanonicalKey(sidA) = CanonicalKey(sidB)
        /\ hashes[2] = hashes[3] <=> CanonicalKey(sidB) = CanonicalKey(sidC)
        /\ (CanonicalKey(sidA) = CanonicalKey(sidB)
               /\ sidA.threshold = DefaultThreshold) => eqAB = "True"
        /\ (eqAB = "True" /\ eqChain.bc = "True"
               /\ AbsDelta(sidA.starttime - sidC.starttime)
                    >= sidA.threshold * TicksPerMinute) => eqChain.ac = "False"

\* C20 witness: a == b and b == c but not a == c, under the default
\* tolerance, and the equal a and b have different keys and hashes
C20_Witness ==
    /\ Hashed
    /\ sidA.threshold = DefaultThreshold /\ sidB.threshold = DefaultThreshold
    /\ eqAB = "True" /\ eqChain.bc = "True" /\ eqChain.ac = "False"
    /\ CanonicalKey(sidA) # CanonicalKey(sidB)
    /\ hashes[1] # hashes[2]

-----------------------------------------------------------------------------
(* C21: determinism of the command builders                                *)

\* the override path a call made in environment env appends for this scene:
\* the value kept for the scene's family (VIIRS: LVL1_NPP_PATH, MODIS:
\* LVL1_EOS_PATH), the environment's before the options', and none when
\* that value is missing or empty or the scene is of another family
EffectiveOverride(env) ==
    LET p == cmdIn.scene.platform_name
        name == IF p \in SUPPORTED_VIIRS_SATELLITES THEN "LVL1_NPP_PATH"
                ELSE "LVL1_EOS_PATH"
        v == IF env[name].set THEN env[name] ELSE cmdIn.options[name]
    IN IF p \in SUPPORTED_VIIRS_SATELLITES \cup SUPPORTED_MODIS_SATELLITES
          /\ v.set /\ v.val # <<>>
       THEN v
       ELSE Absent

\* C21 (as stated): a second call of a command builder with the same scene
\* and options returns what the first call returned, whatever the process
\* environment has become in between, and the arguments and the environment
\* are what they were.
C21_SameArgumentsSameResult ==
    cpc \in {"seq_again", "cmd_again"} => cmdOut = cmdFirst.out

\* C21 (amended): a second call of create_pps_call_command returns what the
\* first returned in any environment; a second call of
\* create_pps_call_command_sequence returns what the first returned whenever
\* the two environments give the scene the same override path.
C21_SameOverrideSameResult ==
    /\ cpc = "cmd_again" => cmdOut = cmdFirst.out
    /\ (cpc = "seq_again"
        /\ EffectiveOverride(environ) = EffectiveOverride(cmdFirst.environ))
       => cmdOut = cmdFirst.out

\* two calls for a Suomi-NPP scene, the first with an empty LVL1_NPP_PATH in
\* the environment and the second with none, the options having none either
C21_Witness ==
    /\ cpc = "seq_again"
    /\ cmdIn.scene.platform_name = "Suomi-NPP"
    /\ cmdFirst.environ.LVL1_NPP_PATH = Present(<<>>)
    /\ environ.LVL1_NPP_PATH = Absent
    /\ cmdIn.options.LVL1_NPP_PATH = Absent
    /\ cmdOut.exc = NoneStr
    /\ cmdOut = cmdFirst.out

-----------------------------------------------------------------------------
(* C22: run_command returns when the child's output fills the pipes       *)

\* the scheduling run_command relies on: the calling thread, each of the two
\* logreader threads and the child take their next step when they can
SpecProcFair ==
    /\ InitProc
    /\ [][ProcNext]_vars
    /\ WF_vars(StartReader /\ UNCHANGED othersProc)
    /\ WF_vars(JoinReader /\ UNCHANGED othersProc)
    /\ WF_vars(ProcWait /\ UNCHANGED othersProc)
    /\ WF_vars(LogReaderStep("stdout") /\ UNCHANGED othersProc)
    /\ WF_vars(LogReaderStep("stderr") /\ UNCHANGED othersProc)
    /\ WF_vars(ChildWrite /\ UNCHANGED othersProc)
    /\ WF_vars(ChildExit /\ UNCHANGED othersProc)

\* C22: once Popen has started the child, whatever streams the child's lines
\* go to and however full the pipes get, run_command eventually returns the
\* child's exit status.
C22_RunCommandReturns ==
    (child = "running") ~> (ppc = "returned" /\ returncode = status)

\* run_command has returned the status of a child that exited by itself
\* after writing more lines to its standard error than the pipe holds
C22_Witness ==
    /\ ppc = "returned"
    /\ returncode = status
    /\ ~killCalled
    /\ MaxLines > PipeCap
    /\ Len(written["stderr"]) = MaxLines

-----------------------------------------------------------------------------
(* C23: what ready2run does to the scene index                             *)

\* q starts with p
StartsWith(q, p) == Len(p) <= Len(q) /\ SubSeq(q, 1, Len(p)) = p

\* the files of record k in the index idx, none when there is no such record
FilesOf(idx, k) == IF k \in DOMAIN idx THEN idx[k] ELSE <<>>

\* the index is the one the call found with the event's path added at the
\* end of one record, every other record being what it was
OnePathAppended ==
    \E k \in DOMAIN files4pps :
        /\ files4pps[k] = Append(FilesOf(before, k), EventUri.path)
        /\ DOMAIN files4pps = DOMAIN before \cup {k}
        /\ \A j \in DOMAIN before : j # k => files4pps[j] = before[j]

\* C23: when a call has ended, the index is the one it found or that one
\* with the event's path appended to one record; it is the one it found
\* whenever the call did not return Ready; and every record the call found
\* is still there, its files the first files of the record, in their order.
C23_IndexOnlyAppendedTo ==
    Returned =>
        /\ files4pps = before \/ OnePathAppended
        /\ ret.value # "True" => files4pps = before
        /\ \A k \in DOMAIN before :
              k \in DOMAIN files4pps /\ StartsWith(files4pps[k], before[k])

\* a call that found a record in the index and ended in an error at the
\* append, after every check had passed
C23_Witness ==
    /\ Returned
    /\ ret.value = "raise"
    /\ ret.at = "append"
    /\ DOMAIN before # {}
    /\ PassesAll
    /\ files4pps = before

-----------------------------------------------------------------------------
(* C24: one message per result file, in order, and the event left alone    *)

NoSendFailed ==
    \A i \in 1..Len(attempts) : ~(attempts[i].op = "send" /\ ~attempts[i].ok)

\* the attempts made for file number n, in the order they were made
AttemptsFor(n) == SelectSeq(attempts, LAMBDA a : a.file = n)

\* files 1..n have one message each, in the order of result_files; each was
\* put once, and sent (once, after the put) exactly when the put failed
PublishedInOrder(n) ==
    /\ Len(emitted) = n
    /\ \A i \in 1..n :
          /\ emitted[i].file = i
          /\ emitted[i].message.data["uri"] = pubIn.result_files[i]
          /\ AttemptsFor(i)[1].op = "put"
          /\ IF AttemptsFor(i)[1].ok
             THEN Len(AttemptsFor(i)) = 1 /\ emitted[i].via = "put"
             ELSE /\ Len(AttemptsFor(i)) = 2
                  /\ AttemptsFor(i)[2].op = "send"
                  /\ emitted[i].via = "send"

\* C24: when a run of publish_pps_files is over and no direct send failed,
\* every file of result_files has exactly one message, emitted in the order
\* of result_files, after one put and, exactly when that put failed, one
\* send; and the data of the original event is what it was.
C24_OneMessagePerFile ==
    (PublishOver /\ NoSendFailed) =>
        /\ PublishedInOrder(Len(pubIn.result_files))
        /\ inputData = pubIn.data

\* what the loop does keep: in a run that returns, and up to the file at
\* which a run is left, every file has its one message, in order, and the
\* event's data is never written
C24_OneMessagePerFileDone ==
    /\ PublishedInOrder(fileNo - 1)
    /\ inputData = pubIn.data
    /\ qpc = "returned" => fileNo - 1 = Len(pubIn.result_files)

====
